---------------------------- MODULE Spec2Model ----------------------------
(***************************************************************************)
(* A model of the CCSDS forward-error-correction toolkit of                *)
(* src/tools/ccsds_fec.py: the standards registry, the codec constructors, *)
(* the convolutional encoder (one action per loop iteration), the          *)
(* Reed-Solomon wrapper around the external engine, and the concatenation  *)
(* orchestrator.                                                           *)
(***************************************************************************)
EXTENDS Integers, Sequences, FiniteSets, TLC

VARIABLES
    STANDARD_POLYNOMIALS,  \* class attribute CCSDSConvolutionalCode.STANDARD_POLYNOMIALS
    STANDARD_CONFIGS,      \* class attribute CCSDSReedSolomon.STANDARD_CONFIGS
    codec,                 \* the codec object the caller holds (None before construction)
    op,                    \* the call last made by the caller: [name, arg]
    pc,                    \* where control is: "idle", "encode" (in the loops), "pack",
                           \* or at one of the try blocks of ccsds_fec_comparison
    caller,                \* who called the running convolutional encode
    input_bits,            \* encode(): the argument
    pos,                   \* encode(): how many input bits the first loop has consumed
    nflush,                \* encode(): how many iterations the flush loop has made
    state,                 \* encode(): the local shift register
    encoded,               \* encode(): the local output list
    rs_out,                \* CCSDSConcatenatedCode.encode(): (rs_encoded, rs_stats)
    conv_out,              \* CCSDSConcatenatedCode.encode(): (conv_encoded, conv_stats);
                           \* ccsds_fec_comparison(): (encoded, stats) of its second block
    ret,                   \* what the last call returned (None while running or raised)
    raised,                \* the exception the last call raised ("none" if it did not)
    first,                 \* observer: the first completed encode() of the held codec,
                           \* and whether another input was encoded since
    results,               \* ccsds_fec_comparison(): the report being assembled
    attempts,              \* observer: the try blocks of the running comparison that
                           \* completed (TRUE) or were abandoned (FALSE), by method
    pk,                    \* the packing pipeline: the sequence it started from, the
                           \* sequence it holds now, and the conversions applied
    connected_clients,     \* the module-level set of live websockets
    client_threads,        \* the module-level dict websocket -> agent thread
    handlers               \* handle_client per websocket: the await it stands at,
                           \* its locals, and what went over the connection

vars == <<STANDARD_POLYNOMIALS, STANDARD_CONFIGS, codec, op, pc, caller, input_bits,
          pos, nflush, state, encoded, rs_out, conv_out, ret, raised, first,
          results, attempts, pk, connected_clients, client_threads, handlers>>

server == <<connected_clients, client_threads, handlers>>
registry == <<STANDARD_POLYNOMIALS, STANDARD_CONFIGS>>
locals == <<input_bits, pos, nflush, state, encoded>>

None == [kind |-> "None"]

-----------------------------------------------------------------------------
(* Bounds of the model *)

\* longest bit list handed to CCSDSConvolutionalCode.encode by the caller
MaxBits == 3

-----------------------------------------------------------------------------
(* The standards registry *)

PolynomialsTable ==
    ("CCSDS_k3_r12" :> [constraint_length |-> 7, code_rate |-> "1/2",
                        generators |-> <<121, 91>>,          \* 0o171, 0o133
                        description |-> "K=7, Rate 1/2 - CCSDS 131.0-B-3"])
 @@ ("CCSDS_k3_r13" :> [constraint_length |-> 7, code_rate |-> "1/3",
                        generators |-> <<121, 91, 101>>,     \* 0o171, 0o133, 0o145
                        description |-> "K=7, Rate 1/3 - CCSDS 131.0-B-3"])
 @@ ("CCSDS_k5_r12" :> [constraint_length |-> 5, code_rate |-> "1/2",
                        generators |-> <<25, 23>>,           \* 0o31, 0o27
                        description |-> "K=5, Rate 1/2 - Simpler variant"])

ConfigsTable ==
    ("CCSDS_rs255_223" :> [n |-> 255, k |-> 223, t |-> 16, nsym |-> 32,
                           description |-> "(255,223) RS code - CCSDS standard"])
 @@ ("CCSDS_rs255_239" :> [n |-> 255, k |-> 239, t |-> 8, nsym |-> 16,
                           description |-> "(255,239) RS code - Lighter FEC"])

\* the names a caller may pass to a constructor: every key of both tables and
\* one name that is a key of neither
StandardNames == DOMAIN PolynomialsTable \cup DOMAIN ConfigsTable \cup {"INVALID_STANDARD"}

-----------------------------------------------------------------------------
(* Integer bit operations *)

RECURSIVE Pow2(_)
Pow2(n) == IF n = 0 THEN 1 ELSE 2 * Pow2(n - 1)

\* (x >> i) & 1
BitAt(x, i) == (x \div Pow2(i)) % 2

\* a | b on single bits
Xor_or(a, b) == IF a + b > 0 THEN 1 ELSE 0

\* a ^ b on single bits
Xor(a, b) == (a + b) % 2

\* a | b on non-negative integers
RECURSIVE BitOr(_, _)
BitOr(a, b) ==
    IF a = 0 THEN b
    ELSE IF b = 0 THEN a
    ELSE (IF a % 2 = 1 \/ b % 2 = 1 THEN 1 ELSE 0) + 2 * BitOr(a \div 2, b \div 2)

\* a register masked to K bits instead of K - 1
ShiftIn_wide(st, bit, K) == (2 * st + bit) % Pow2(K)

\* ((state << 1) | bit) & ((1 << (K - 1)) - 1)
ShiftIn(st, bit, K) == BitOr(2 * st, bit) % Pow2(K - 1)

\* the loop "for i in range(K): if (gen >> i) & 1: parity ^= (temp_state >> i) & 1"
RECURSIVE ParityLoop(_, _, _, _, _)
ParityLoop(gen, temp_state, K, i, parity) ==
    IF i = K THEN parity
    ELSE ParityLoop(gen, temp_state, K, i + 1,
                    IF BitAt(gen, i) = 1 THEN Xor(parity, BitAt(temp_state, i))
                    ELSE parity)

Parity(gen, st, K) == ParityLoop(gen, st, K, 0, 0)

\* the parity bits appended last generator first
EmitBits_reversed(gens, st, K) ==
    [g \in 1..Len(gens) |-> Parity(gens[Len(gens) + 1 - g], st, K)]

\* the loop "for gen in self.generators: ... encoded.append(parity)"
EmitBits(gens, st, K) == [g \in 1..Len(gens) |-> Parity(gens[g], st, K)]

-----------------------------------------------------------------------------
(* Objects *)

\* the fields set by CCSDSConvolutionalCode.__init__; params and generators are
\* references into the registry, constraint_length is a copied integer
ConvObject(standard) ==
    [kind |-> "conv", standard |-> standard,
     constraint_length |-> STANDARD_POLYNOMIALS[standard].constraint_length]

params(self) == STANDARD_POLYNOMIALS[self.standard]
generators(self) == params(self).generators

\* the values of the four fields of a convolutional codec object
ConvFields(self) ==
    [standard |-> self.standard, params |-> params(self),
     constraint_length |-> self.constraint_length, generators |-> generators(self)]


\* the fields set by CCSDSReedSolomon.__init__; config is a reference into the
\* registry, codec is the engine object RSCodec(nsym)
RSObject(standard) ==
    [kind |-> "rs", standard |-> standard,
     codec |-> [nsym |-> STANDARD_CONFIGS[standard].nsym]]

config(self) == STANDARD_CONFIGS[self.standard]

\* the fields set by CCSDSConcatenatedCode.__init__
ConcatObject(conv_standard, rs_standard) ==
    [kind |-> "concat", conv_code |-> ConvObject(conv_standard),
     rs_code |-> RSObject(rs_standard)]

-----------------------------------------------------------------------------
(* Numbers: the value of a Python int or float, as a fraction in lowest terms *)

RECURSIVE Gcd(_, _)
Gcd(a, b) == IF b = 0 THEN a ELSE Gcd(b, a % b)

Number(num, den) ==
    [kind |-> "number", num |-> num \div Gcd(num, den), den |-> den \div Gcd(num, den)]

Zero == Number(0, 1)

ZeroDivisionError == [kind |-> "ZeroDivisionError"]

\* a / b
TrueDiv(a, b) == IF b = 0 THEN ZeroDivisionError ELSE Number(a, b)

-----------------------------------------------------------------------------
(* CCSDSConvolutionalCode *)

\* the codec object whose encode() is running: the caller's, the outer code of
\* the caller's concatenated codec, or the local codec of ccsds_fec_comparison
self_conv ==
    IF caller = "concat" THEN codec.conv_code
    ELSE IF caller = "comparison" THEN ConvObject("CCSDS_k3_r12")
    ELSE codec

\* the ratio without its guard for empty input
ExpansionRatio_unguarded(n_encoded, n_input) == TrueDiv(n_encoded, n_input)

\* "expansion_ratio": len(encoded) / len(input_bits) if input_bits else 0
ExpansionRatio(n_encoded, n_input) ==
    IF n_input # 0 THEN TrueDiv(n_encoded, n_input) ELSE Zero

\* the stats dictionary of CCSDSConvolutionalCode.encode
ConvStats(self, bits, enc) ==
    [input_length |-> Len(bits),
     output_length |-> Len(enc),
     code_rate |-> params(self).code_rate,
     constraint_length |-> self.constraint_length,
     expansion_ratio |-> ExpansionRatio(Len(enc), Len(bits))]

NoLocals ==
    /\ input_bits' = <<>>
    /\ pos' = 0
    /\ nflush' = 0
    /\ state' = 0
    /\ encoded' = <<>>
    /\ UNCHANGED server

\* a constructor that falls back to its default standard for an unknown name
ConvInit_default(standard) ==
    /\ pc = "idle"
    /\ op' = [name |-> "CCSDSConvolutionalCode", arg |-> <<standard>>]
    /\ LET used == IF standard \in DOMAIN STANDARD_POLYNOMIALS THEN standard
                   ELSE "CCSDS_k3_r12"
       IN /\ raised' = "none"
          /\ ret' = ConvObject(used)
          /\ codec' = ConvObject(used)
          /\ first' = None
    /\ UNCHANGED <<results, attempts, pk>>
    /\ UNCHANGED <<registry, pc, caller, locals, rs_out, conv_out>>
    /\ UNCHANGED server

\* CCSDSConvolutionalCode(standard): __init__ raises ValueError for a name that
\* is no key of STANDARD_POLYNOMIALS, and sets the fields otherwise; the caller
\* keeps the object only when one is returned
ConvInit(standard) ==
    /\ pc = "idle"
    /\ op' = [name |-> "CCSDSConvolutionalCode", arg |-> <<standard>>]
    /\ IF standard \notin DOMAIN STANDARD_POLYNOMIALS
       THEN /\ raised' = "ValueError"
            /\ ret' = None
            /\ UNCHANGED <<codec, first>>
       ELSE /\ raised' = "none"
            /\ ret' = ConvObject(standard)
            /\ codec' = ConvObject(standard)
            /\ first' = None
    /\ UNCHANGED <<results, attempts, pk>>
    /\ UNCHANGED <<registry, pc, caller, locals, rs_out, conv_out>>
    /\ UNCHANGED server

\* "state = 0": the register an encode() call starts from
StartState == 0

\* an output list shared between calls (a mutable default or a field)
StartEncoded_shared == IF first = None THEN <<>> ELSE first.result.encoded

\* "encoded = []": the output list an encode() call starts from
StartEncoded == <<>>

\* a flush loop that runs once too often
FlushSteps_K(K) == K

\* "range(self.constraint_length - 1)": the iterations of the flush loop
FlushSteps(K) == K - 1

\* the register after the loop iterations lo..hi that start from register st
\* (the iterations are split in halves to keep the evaluation shallow)
RECURSIVE StateAfter(_, _, _, _, _)
StateAfter(K, bits, lo, hi, st) ==
    IF st < 0 \/ lo > hi THEN st
    ELSE IF lo = hi THEN ShiftIn(st, bits[lo], K)
    ELSE LET mid == (lo + hi) \div 2
         IN StateAfter(K, bits, mid + 1, hi, StateAfter(K, bits, lo, mid, st))

\* what the loop iterations lo..hi append, starting from register st (a
\* natural number: the register is never negative)
RECURSIVE RunBits(_, _, _, _, _, _)
RunBits(gens, K, bits, lo, hi, st) ==
    IF st < 0 \/ lo > hi THEN <<>>
    ELSE IF lo = hi THEN EmitBits(gens, ShiftIn(st, bits[lo], K), K)
    ELSE LET mid == (lo + hi) \div 2
         IN RunBits(gens, K, bits, lo, mid, st)
            \o RunBits(gens, K, bits, mid + 1, hi, StateAfter(K, bits, lo, mid, st))

\* what self.encode(bits) returns, as one step: the list and the stats; the
\* flush loop shifts in nothing, which is what shifting in a 0 does
EncodeResult(self, bits) ==
    LET K == self.constraint_length
        all == bits \o [z \in 1..FlushSteps(K) |-> 0]
        out == RunBits(generators(self), K, all, 1, Len(all), StartState)
    IN [kind |-> "tuple", encoded |-> out, stats |-> ConvStats(self, bits, out)]

\* both loops of the running encode() are over
EncodeDone ==
    /\ pc = "encode"
    /\ pos = Len(input_bits)
    /\ nflush = FlushSteps(self_conv.constraint_length)

\* the caller invokes codec.encode(bits) on a convolutional codec
ConvEncodeCall(bits) ==
    /\ pc = "idle"
    /\ codec.kind = "conv"
    /\ op' = [name |-> "CCSDSConvolutionalCode.encode", arg |-> bits]
    /\ pc' = "encode"
    /\ caller' = "client"
    /\ input_bits' = bits
    /\ pos' = 0
    /\ nflush' = 0
    /\ state' = StartState
    /\ encoded' = StartEncoded
    /\ ret' = None
    /\ raised' = "none"
    /\ UNCHANGED <<results, attempts, pk>>
    /\ UNCHANGED <<registry, codec, rs_out, conv_out, first>>
    /\ UNCHANGED server

\* one iteration of "for bit in input_bits"
EncodeInputStep ==
    /\ pc = "encode"
    /\ pos < Len(input_bits)
    /\ LET K == self_conv.constraint_length
           st == ShiftIn(state, input_bits[pos + 1], K)
       IN /\ state' = st
          /\ encoded' = encoded \o EmitBits(generators(self_conv), st, K)
    /\ pos' = pos + 1
    /\ UNCHANGED <<results, attempts, pk>>
    /\ UNCHANGED <<registry, codec, op, pc, caller, input_bits, nflush, rs_out,
                   conv_out, ret, raised, first>>
    /\ UNCHANGED server

\* one iteration of "for _ in range(self.constraint_length - 1)"
EncodeFlushStep ==
    /\ pc = "encode"
    /\ pos = Len(input_bits)
    /\ nflush < FlushSteps(self_conv.constraint_length)
    /\ LET K == self_conv.constraint_length
           st == ShiftIn(state, 0, K)
       IN /\ state' = st
          /\ encoded' = encoded \o EmitBits(generators(self_conv), st, K)
    /\ nflush' = nflush + 1
    /\ UNCHANGED <<results, attempts, pk>>
    /\ UNCHANGED <<registry, codec, op, pc, caller, input_bits, pos, rs_out,
                   conv_out, ret, raised, first>>
    /\ UNCHANGED server

\* both loops are over: build stats and return (encoded, stats)
EncodeReturn ==
    /\ EncodeDone
    /\ LET stats == ConvStats(self_conv, input_bits, encoded)
           failed == stats.expansion_ratio = ZeroDivisionError
           result == [kind |-> "tuple", encoded |-> encoded, stats |-> stats]
       IN /\ raised' = IF failed /\ caller # "comparison" THEN "ZeroDivisionError"
                       ELSE raised
          /\ IF caller = "comparison"
             THEN /\ conv_out' = IF failed THEN ZeroDivisionError ELSE result
                  /\ pc' = "compare_conv"
                  /\ UNCHANGED <<ret, first>>
             ELSE IF caller = "concat" /\ ~failed
             THEN /\ conv_out' = result
                  /\ pc' = "pack"
                  /\ UNCHANGED <<ret, first>>
             ELSE /\ ret' = IF failed THEN None ELSE result
                  /\ pc' = "idle"
                  /\ first' = IF caller # "client" \/ failed THEN first
                              ELSE IF first = None
                              THEN [input |-> input_bits, result |-> result,
                                    fields |-> ConvFields(codec), between |-> FALSE]
                              ELSE IF input_bits # first.input
                              THEN [first EXCEPT !.between = TRUE]
                              ELSE first
                  /\ UNCHANGED conv_out
    /\ NoLocals
    /\ UNCHANGED <<results, attempts, pk>>
    /\ UNCHANGED <<registry, codec, op, caller, rs_out>>
    /\ UNCHANGED server


-----------------------------------------------------------------------------
(* CCSDSReedSolomon *)

\* a constructor that registers an unknown name with the default configuration
RSInit_register(standard) ==
    /\ pc = "idle"
    /\ op' = [name |-> "CCSDSReedSolomon", arg |-> <<standard>>]
    /\ STANDARD_CONFIGS' =
          IF standard \in DOMAIN STANDARD_CONFIGS THEN STANDARD_CONFIGS
          ELSE (standard :> STANDARD_CONFIGS["CCSDS_rs255_223"]) @@ STANDARD_CONFIGS
    /\ raised' = "none"
    /\ ret' = [kind |-> "rs", standard |-> standard,
               codec |-> [nsym |-> STANDARD_CONFIGS'[standard].nsym]]
    /\ codec' = ret'
    /\ first' = None
    /\ UNCHANGED <<results, attempts, pk>>
    /\ UNCHANGED <<STANDARD_POLYNOMIALS, pc, caller, locals, rs_out, conv_out>>
    /\ UNCHANGED server

\* CCSDSReedSolomon(standard): __init__ raises ValueError for a name that is no
\* key of STANDARD_CONFIGS, and sets the fields otherwise
RSInit(standard) ==
    /\ pc = "idle"
    /\ op' = [name |-> "CCSDSReedSolomon", arg |-> <<standard>>]
    /\ IF standard \notin DOMAIN STANDARD_CONFIGS
       THEN /\ raised' = "ValueError"
            /\ ret' = None
            /\ UNCHANGED <<codec, first>>
       ELSE /\ raised' = "none"
            /\ ret' = RSObject(standard)
            /\ codec' = RSObject(standard)
            /\ first' = None
    /\ UNCHANGED <<results, attempts, pk>>
    /\ UNCHANGED <<registry, pc, caller, locals, rs_out, conv_out>>
    /\ UNCHANGED server

\* The external engine's RSCodec(nsym).encode(data).  The engine is no part of the
\* repository: the call either raises, or returns a value whose element [0] is the
\* message followed by its parity symbols (none when there is no message chunk),
\* or returns that codeword itself as a byte array, whose element [0] is its
\* first byte (encoding_tools.py: "encoded is bytearray"); the parity bytes are
\* whatever the engine computes.
EngineParities(data, nsym) ==
    IF Len(data) = 0 THEN {<<>>}
    ELSE {[i \in 1..nsym |-> 0], [i \in 1..nsym |-> IF i % 2 = 1 THEN 255 ELSE 90]}

EngineEncode(data, nsym) ==
    {[kind |-> "raise"]}
    \cup {[kind |-> "value", item0 |-> data \o p] : p \in EngineParities(data, nsym)}
    \cup {[kind |-> "bytes", codeword |-> data \o p] : p \in EngineParities(data, nsym)}

\* stats that report t as the parity count and nsym as the capability
RSStats_swapped(self, data, encoded0) ==
    [original_length |-> Len(data),
     encoded_length |-> Len(encoded0),
     parity_symbols |-> config(self).t,
     error_correction_capability |-> config(self).nsym,
     code_rate |-> ToString(config(self).k) \o "/" \o ToString(config(self).n)]

\* the stats dictionary of CCSDSReedSolomon.encode
RSStats(self, data, encoded0) ==
    [original_length |-> Len(data),
     encoded_length |-> Len(encoded0),
     parity_symbols |-> config(self).nsym,
     error_correction_capability |-> config(self).t,
     code_rate |-> ToString(config(self).k) \o "/" \o ToString(config(self).n)]

\* what CCSDSReedSolomon.encode raises for one outcome of the engine call: the
\* engine's own error, or the error of "len(encoded[0])" on a byte array
\* (encoded[0] of an empty one is out of range, of another one it is an int)
RSEncodeRaises(engine) ==
    CASE engine.kind = "raise" -> "EngineError"
      [] engine.kind = "bytes" ->
            IF Len(engine.codeword) = 0 THEN "IndexError" ELSE "TypeError"
      [] engine.kind = "value" -> "none"

\* what CCSDSReedSolomon.encode returns for one outcome of the engine call
RSEncodeResult(self, data, engine) ==
    [kind |-> "tuple", encoded |-> engine.item0,
     stats |-> RSStats(self, data, engine.item0)]

\* the caller invokes codec.encode(data) on a Reed-Solomon codec
RSEncode(data) ==
    /\ pc = "idle"
    /\ codec.kind = "rs"
    /\ op' = [name |-> "CCSDSReedSolomon.encode", arg |-> data]
    /\ \E engine \in EngineEncode(data, codec.codec.nsym) :
          IF RSEncodeRaises(engine) # "none"
          THEN /\ raised' = RSEncodeRaises(engine)
               /\ ret' = None
          ELSE /\ raised' = "none"
               /\ ret' = RSEncodeResult(codec, data, engine)
    /\ UNCHANGED <<results, attempts, pk>>
    /\ UNCHANGED <<registry, codec, pc, caller, locals, rs_out, conv_out, first>>
    /\ UNCHANGED server


\* The external engine's RSCodec(nsym).decode(encoded_data): it raises
\* ReedSolomonError when the codeword is uncorrectable, raises another error
\* for input it rejects, or returns (decoded, ecc, errata) with the message part
\* of the codeword and the positions it corrected.
EngineDecode(encoded_data, nsym) ==
    {[kind |-> "ReedSolomonError", message |-> "Too many (or few) errors found"],
     [kind |-> "raise"]}
    \cup (IF Len(encoded_data) <= nsym THEN {}
          ELSE {[kind |-> "value",
                 decoded |-> SubSeq(encoded_data, 1, Len(encoded_data) - nsym),
                 errata |-> e] : e \in {<<>>, <<0>>, <<1, 0>>}})

\* a decode that hands back the received bytes when the engine gives up
RSDecode_guess(encoded_data) ==
    /\ pc = "idle"
    /\ codec.kind = "rs"
    /\ op' = [name |-> "CCSDSReedSolomon.decode", arg |-> encoded_data]
    /\ \E engine \in EngineDecode(encoded_data, codec.codec.nsym) :
          CASE engine.kind = "raise" ->
                 /\ raised' = "EngineError"
                 /\ ret' = None
            [] engine.kind = "ReedSolomonError" ->
                 /\ raised' = "none"
                 /\ ret' = [kind |-> "tuple", decoded |-> encoded_data,
                            stats |-> [status |-> "error",
                                       message |-> "Too many errors to correct: "
                                                      \o engine.message]]
            [] engine.kind = "value" ->
                 /\ raised' = "none"
                 /\ ret' = [kind |-> "tuple", decoded |-> engine.decoded,
                            stats |-> [decoded_length |-> Len(engine.decoded),
                                       errors_corrected |-> Len(engine.errata),
                                       error_positions |-> engine.errata,
                                       status |-> "success"]]
    /\ UNCHANGED <<results, attempts, pk>>
    /\ UNCHANGED <<registry, codec, pc, caller, locals, rs_out, conv_out, first>>
    /\ UNCHANGED server

\* the caller invokes codec.decode(encoded_data) on a Reed-Solomon codec
RSDecode(encoded_data) ==
    /\ pc = "idle"
    /\ codec.kind = "rs"
    /\ op' = [name |-> "CCSDSReedSolomon.decode", arg |-> encoded_data]
    /\ \E engine \in EngineDecode(encoded_data, codec.codec.nsym) :
          CASE engine.kind = "raise" ->
                 /\ raised' = "EngineError"
                 /\ ret' = None
            [] engine.kind = "ReedSolomonError" ->
                 /\ raised' = "none"
                 /\ ret' = [kind |-> "tuple", decoded |-> <<>>,
                            stats |-> [status |-> "error",
                                       message |-> "Too many errors to correct: "
                                                      \o engine.message]]
            [] engine.kind = "value" ->
                 /\ raised' = "none"
                 /\ ret' = [kind |-> "tuple", decoded |-> engine.decoded,
                            stats |-> [decoded_length |-> Len(engine.decoded),
                                       errors_corrected |-> Len(engine.errata),
                                       error_positions |-> engine.errata,
                                       status |-> "success"]]
    /\ UNCHANGED <<results, attempts, pk>>
    /\ UNCHANGED <<registry, codec, pc, caller, locals, rs_out, conv_out, first>>
    /\ UNCHANGED server

-----------------------------------------------------------------------------
(* Bit/byte packing and base64, as written inline in the encoders *)

\* an unpacking that takes the least significant bit of each byte first
BytesToBits_lsb(bytes) ==
    [j \in 1..(8 * Len(bytes)) |-> BitAt(bytes[((j - 1) \div 8) + 1], (j - 1) % 8)]

\* "for byte in data: for i in range(8): bits.append((byte >> (7 - i)) & 1)"
BytesToBits(bytes) ==
    [j \in 1..(8 * Len(bytes)) |-> BitAt(bytes[((j - 1) \div 8) + 1], 7 - ((j - 1) % 8))]

\* "byte_val = 0; for bit in byte_bits: byte_val = (byte_val << 1) | bit"
RECURSIVE ByteVal(_, _)
ByteVal(byte_bits, byte_val) ==
    IF byte_bits = <<>> THEN byte_val
    ELSE ByteVal(Tail(byte_bits), 2 * byte_val + Head(byte_bits))

\* a final group that is padded in front, in its high-order bits
PaddedGroup_front(bits, i) ==
    LET last == IF i + 8 <= Len(bits) THEN i + 8 ELSE Len(bits)
        byte_bits == SubSeq(bits, i + 1, last)
    IN [z \in 1..(8 - Len(byte_bits)) |-> 0] \o byte_bits

\* byte_bits = bits[i:i+8], then "while len(byte_bits) < 8: byte_bits.append(0)"
PaddedGroup(bits, i) ==
    LET last == IF i + 8 <= Len(bits) THEN i + 8 ELSE Len(bits)
        byte_bits == SubSeq(bits, i + 1, last)
    IN byte_bits \o [z \in 1..(8 - Len(byte_bits)) |-> 0]

\* a packing that drops the first bit of every group
BitsToBytes_shifted(bits) ==
    [b \in 1..((Len(bits) + 7) \div 8) |->
        ByteVal(Tail(PaddedGroup(bits, 8 * (b - 1))), 0)]

\* "for i in range(0, len(bits), 8): ... output_bytes.append(byte_val)"
BitsToBytes(bits) ==
    [b \in 1..((Len(bits) + 7) \div 8) |-> ByteVal(PaddedGroup(bits, 8 * (b - 1)), 0)]

B64Alphabet ==
    <<"A", "B", "C", "D", "E", "F", "G", "H", "I", "J", "K", "L", "M", "N", "O", "P",
      "Q", "R", "S", "T", "U", "V", "W", "X", "Y", "Z", "a", "b", "c", "d", "e", "f",
      "g", "h", "i", "j", "k", "l", "m", "n", "o", "p", "q", "r", "s", "t", "u", "v",
      "w", "x", "y", "z", "0", "1", "2", "3", "4", "5", "6", "7", "8", "9", "+", "/">>

B64Char(sextet) == B64Alphabet[sextet + 1]

\* base64.b64encode(bytes).decode(): 3 bytes give 4 characters, a final group of
\* 1 or 2 bytes is padded with "="
RECURSIVE B64Encode(_)
B64Encode(bytes) ==
    IF Len(bytes) = 0 THEN <<>>
    ELSE IF Len(bytes) = 1
    THEN <<B64Char(bytes[1] \div 4), B64Char((bytes[1] % 4) * 16), "=", "=">>
    ELSE IF Len(bytes) = 2
    THEN <<B64Char(bytes[1] \div 4),
           B64Char((bytes[1] % 4) * 16 + bytes[2] \div 16),
           B64Char((bytes[2] % 16) * 4), "=">>
    ELSE <<B64Char(bytes[1] \div 4),
           B64Char((bytes[1] % 4) * 16 + bytes[2] \div 16),
           B64Char((bytes[2] % 16) * 4 + bytes[3] \div 64),
           B64Char(bytes[3] % 64)>> \o B64Encode(SubSeq(bytes, 4, Len(bytes)))

-----------------------------------------------------------------------------
(* CCSDSConcatenatedCode *)

\* CCSDSConcatenatedCode(conv_standard, rs_standard): the convolutional codec
\* is constructed first, then the Reed-Solomon codec; either may raise
ConcatInit(conv_standard, rs_standard) ==
    /\ pc = "idle"
    /\ op' = [name |-> "CCSDSConcatenatedCode", arg |-> <<conv_standard, rs_standard>>]
    /\ IF \/ conv_standard \notin DOMAIN STANDARD_POLYNOMIALS
          \/ rs_standard \notin DOMAIN STANDARD_CONFIGS
       THEN /\ raised' = "ValueError"
            /\ ret' = None
            /\ UNCHANGED <<codec, first>>
       ELSE /\ raised' = "none"
            /\ ret' = ConcatObject(conv_standard, rs_standard)
            /\ codec' = ConcatObject(conv_standard, rs_standard)
            /\ first' = None
    /\ UNCHANGED <<results, attempts, pk>>
    /\ UNCHANGED <<registry, pc, caller, locals, rs_out, conv_out>>
    /\ UNCHANGED server

\* an orchestrator that answers a Reed-Solomon failure the way decode() does,
\* with an empty output and stats that carry the error
ConcatEncodeCall_errstats(data) ==
    /\ pc = "idle"
    /\ codec.kind = "concat"
    /\ op' = [name |-> "CCSDSConcatenatedCode.encode", arg |-> data]
    /\ raised' = "none"
    /\ \E engine \in EngineEncode(data, codec.rs_code.codec.nsym) :
          IF RSEncodeRaises(engine) # "none"
          THEN /\ ret' = [kind |-> "tuple", encoded |-> <<>>,
                          stats |-> [status |-> "error",
                                     message |-> RSEncodeRaises(engine)]]
               /\ UNCHANGED <<pc, caller, locals, rs_out>>
          ELSE /\ ret' = None
               /\ rs_out' = RSEncodeResult(codec.rs_code, data, engine)
               /\ pc' = "encode"
               /\ caller' = "concat"
               /\ input_bits' = BytesToBits(rs_out'.encoded)
               /\ pos' = 0
               /\ nflush' = 0
               /\ state' = StartState
               /\ encoded' = StartEncoded
    /\ UNCHANGED <<results, attempts, pk>>
    /\ UNCHANGED <<registry, codec, conv_out, first>>
    /\ UNCHANGED server

\* the caller invokes codec.encode(data) on a concatenated codec: the inner
\* Reed-Solomon encode, the unpacking to bits, and the call of the outer encode
ConcatEncodeCall(data) ==
    /\ pc = "idle"
    /\ codec.kind = "concat"
    /\ op' = [name |-> "CCSDSConcatenatedCode.encode", arg |-> data]
    /\ ret' = None
    /\ \E engine \in EngineEncode(data, codec.rs_code.codec.nsym) :
          IF RSEncodeRaises(engine) # "none"
          THEN /\ raised' = RSEncodeRaises(engine)
               /\ UNCHANGED <<pc, caller, locals, rs_out>>
          ELSE /\ raised' = "none"
               /\ rs_out' = RSEncodeResult(codec.rs_code, data, engine)
               /\ pc' = "encode"
               /\ caller' = "concat"
               /\ input_bits' = BytesToBits(rs_out'.encoded)
               /\ pos' = 0
               /\ nflush' = 0
               /\ state' = StartState
               /\ encoded' = StartEncoded
    /\ UNCHANGED <<results, attempts, pk>>
    /\ UNCHANGED <<registry, codec, conv_out, first>>
    /\ UNCHANGED server

\* a rate that counts the data in bytes and the output in bits
OverallCodeRate_bytes(n_data, n_conv) ==
    IF n_conv # 0 THEN TrueDiv(n_data, n_conv) ELSE Zero

\* "overall_code_rate": (len(data) * 8) / len(conv_encoded) if conv_encoded else 0
OverallCodeRate(n_data, n_conv) ==
    IF n_conv # 0 THEN TrueDiv(n_data * 8, n_conv) ELSE Zero

\* the stats dictionary of CCSDSConcatenatedCode.encode
ConcatStats(data, rs_stats, conv_encoded, output_bytes) ==
    [original_data_length |-> Len(data),
     rs_encoded_length |-> rs_stats.encoded_length,
     total_bits |-> Len(conv_encoded),
     output_length |-> Len(output_bytes),
     code_type |-> "Concatenated (RS inner + Conv outer)",
     overall_code_rate |-> OverallCodeRate(Len(data), Len(conv_encoded))]

\* the outer encode has returned: pack its bits to bytes, base64 them, build the
\* stats and return (output_b64, stats)
ConcatPack ==
    /\ pc = "pack"
    /\ LET output_bytes == BitsToBytes(conv_out.encoded)
           stats == ConcatStats(op.arg, rs_out.stats, conv_out.encoded, output_bytes)
           failed == stats.overall_code_rate = ZeroDivisionError
       IN /\ raised' = IF failed THEN "ZeroDivisionError" ELSE raised
          /\ ret' = IF failed THEN None
                    ELSE [kind |-> "tuple", encoded |-> B64Encode(output_bytes),
                          stats |-> stats]
    /\ pc' = "idle"
    /\ caller' = "client"
    /\ rs_out' = None
    /\ conv_out' = None
    /\ UNCHANGED <<results, attempts, pk>>
    /\ UNCHANGED <<registry, codec, op, locals, first>>
    /\ UNCHANGED server

-----------------------------------------------------------------------------
(* Text arguments of the tool functions: a str is a sequence of characters *)

Digits == <<"0", "1", "2", "3", "4", "5", "6", "7", "8", "9">>

IsDigit(char) == \E d \in 1..10 : Digits[d] = char

DigitValue(char) == (CHOOSE d \in 1..10 : Digits[d] = char) - 1

\* what int() raises for text that is no integer literal
ValueError == [kind |-> "ValueError"]

\* text.strip(), for text whose only whitespace is the space
RECURSIVE StripLeft(_)
StripLeft(text) ==
    IF text # <<>> /\ Head(text) = " " THEN StripLeft(Tail(text)) ELSE text

RECURSIVE StripRight(_)
StripRight(text) ==
    IF text # <<>> /\ text[Len(text)] = " "
    THEN StripRight(SubSeq(text, 1, Len(text) - 1))
    ELSE text

Strip(text) == StripRight(StripLeft(text))

RECURSIVE DecimalValue(_, _)
DecimalValue(digits, value) ==
    IF digits = <<>> THEN value
    ELSE DecimalValue(Tail(digits), 10 * value + DigitValue(Head(digits)))

\* int(text), for unsigned text: surrounding spaces are ignored, what is left
\* must be one or more digits
IntOf(text) ==
    LET literal == Strip(text)
    IN IF literal = <<>> \/ \E i \in 1..Len(literal) : ~IsDigit(literal[i])
       THEN ValueError
       ELSE [kind |-> "int", value |-> DecimalValue(literal, 0)]

\* text.split(sep): the pieces between the separators, at least one
RECURSIVE Split(_, _)
Split(text, sep) ==
    IF \A i \in 1..Len(text) : text[i] # sep THEN <<text>>
    ELSE LET at == CHOOSE i \in 1..Len(text) :
                      text[i] = sep /\ \A j \in 1..(i - 1) : text[j] # sep
         IN <<SubSeq(text, 1, at - 1)>> \o Split(SubSeq(text, at + 1, Len(text)), sep)

\* text.replace(' ', '')
RECURSIVE Unspaced(_)
Unspaced(text) ==
    IF text = <<>> THEN <<>>
    ELSE IF Head(text) = " " THEN Unspaced(Tail(text))
    ELSE <<Head(text)>> \o Unspaced(Tail(text))

\* ''.join(str(b) for b in ints)
RECURSIVE JoinInts(_)
JoinInts(ints) ==
    IF ints = <<>> THEN "" ELSE ToString(Head(ints)) \o JoinInts(Tail(ints))

-----------------------------------------------------------------------------
(* CCSDSTurboCodes and CCSDSLDPCCodes: the repetition placeholders *)

\* the inverse of B64Char
B64Index(char) == CHOOSE sextet \in 0..63 : B64Alphabet[sextet + 1] = char

\* base64.b64decode(text): 4 characters give 3 bytes, a final group with "=" gives
\* 1 or 2 bytes
RECURSIVE B64Decode(_)
B64Decode(chars) ==
    IF Len(chars) = 0 THEN <<>>
    ELSE LET a == B64Index(chars[1])
             b == B64Index(chars[2])
         IN IF chars[3] = "=" THEN <<(a * 4) + (b \div 16)>>
            ELSE IF chars[4] = "="
            THEN <<(a * 4) + (b \div 16), ((b % 16) * 16) + (B64Index(chars[3]) \div 4)>>
            ELSE <<(a * 4) + (b \div 16),
                   ((b % 16) * 16) + (B64Index(chars[3]) \div 4),
                   ((B64Index(chars[3]) % 4) * 64) + B64Index(chars[4])>>
                 \o B64Decode(SubSeq(chars, 5, Len(chars)))

\* "bits * multiplier": the list repeated
Repeat(bits, multiplier) ==
    [j \in 1..(Len(bits) * multiplier) |-> bits[((j - 1) % Len(bits)) + 1]]

\* the default of CCSDSTurboCodes.__init__
DefaultFrameSize == 6144

\* the fields set by CCSDSTurboCodes(frame_size)
TurboObject(frame_size) == [kind |-> "turbo", frame_size |-> frame_size]

\* CCSDSTurboCodes.encode(data): the bits of the data twice, packed and base64'd
TurboEncode(self, data) ==
    LET bits == BytesToBits(data)
        doubled == bits \o bits
        output_bytes == BitsToBytes(doubled)
    IN [kind |-> "tuple", encoded |-> B64Encode(output_bytes),
        stats |-> [original_bits |-> Len(bits),
                   encoded_bits |-> Len(doubled),
                   output_length |-> Len(output_bytes),
                   code_rate |-> "1/2 (demonstration)",
                   frame_size |-> self.frame_size,
                   type |-> "Turbo Code (basic)"]]

\* "self.rate_num, self.rate_den = map(int, code_rate.split("/"))": ValueError
\* unless the text is two integer literals around one "/"
RateParts(code_rate) ==
    LET pieces == Split(code_rate, "/")
    IN IF Len(pieces) # 2 \/ \E i \in 1..Len(pieces) : IntOf(pieces[i]) = ValueError
       THEN ValueError
       ELSE [kind |-> "rate", rate_num |-> IntOf(pieces[1]).value,
             rate_den |-> IntOf(pieces[2]).value]

\* the default of CCSDSLDPCCodes.__init__: "1/2"
DefaultRate == <<"1", "/", "2">>

\* the fields set by CCSDSLDPCCodes(code_rate), for a rate that parses
LDPCObject(code_rate) ==
    [kind |-> "ldpc", code_rate |-> code_rate,
     rate_num |-> RateParts(code_rate).rate_num,
     rate_den |-> RateParts(code_rate).rate_den]

\* an LDPC encode whose multiplier is the quotient rounded up
LDPCEncode_ceil(self, data) ==
    IF self.rate_num = 0 THEN ZeroDivisionError
    ELSE LET bits == BytesToBits(data)
             multiplier == (self.rate_den + self.rate_num - 1) \div self.rate_num
             repeated == Repeat(bits, multiplier)
             output_bytes == BitsToBytes(repeated)
         IN [kind |-> "tuple", encoded |-> B64Encode(output_bytes),
             stats |-> [original_bits |-> Len(bits),
                        encoded_bits |-> Len(repeated),
                        output_length |-> Len(output_bytes),
                        code_rate |-> self.code_rate,
                        type |-> "LDPC Code (basic)",
                        sparse_matrix_density |-> "0.01 (typical)"]]

\* CCSDSLDPCCodes.encode(data): the bits of the data rate_den // rate_num times,
\* packed and base64'd; the division raises for rate_num = 0
LDPCEncode(self, data) ==
    IF self.rate_num = 0 THEN ZeroDivisionError
    ELSE LET bits == BytesToBits(data)
             multiplier == self.rate_den \div self.rate_num
             repeated == Repeat(bits, multiplier)
             output_bytes == BitsToBytes(repeated)
         IN [kind |-> "tuple", encoded |-> B64Encode(output_bytes),
             stats |-> [original_bits |-> Len(bits),
                        encoded_bits |-> Len(repeated),
                        output_length |-> Len(output_bytes),
                        code_rate |-> self.code_rate,
                        type |-> "LDPC Code (basic)",
                        sparse_matrix_density |-> "0.01 (typical)"]]

-----------------------------------------------------------------------------
(* ccsds_fec_comparison *)

\* the UTF-8 bytes of one code point
Utf8Char(c) ==
    IF c < 128 THEN <<c>>
    ELSE IF c < 2048 THEN <<192 + (c \div 64), 128 + (c % 64)>>
    ELSE <<224 + (c \div 4096), 128 + ((c \div 64) % 64), 128 + (c % 64)>>

\* "test_data.encode()" raises UnicodeEncodeError for a string that holds a
\* surrogate code point, and returns bytes for every other string
Encodable(text) == \A i \in 1..Len(text) : text[i] \notin 55296..57343

\* "test_data.encode()": the UTF-8 bytes of an encodable string of code points
\* below 65536
RECURSIVE Utf8Encode(_)
Utf8Encode(text) ==
    IF text = <<>> THEN <<>>
    ELSE Utf8Char(Head(text)) \o Utf8Encode(Tail(text))

\* the local data_bytes of the running comparison
data_bytes == Utf8Encode(op.arg)

\* f"{x:.1f}%" for a ratio x >= 0: one decimal, a tie rounded to the even digit
FormatPercent(x) ==
    LET scaled == 10 * x.num
        down == scaled \div x.den
        twice == 2 * (scaled % x.den)
        tenths == IF twice > x.den \/ (twice = x.den /\ down % 2 = 1) THEN down + 1
                  ELSE down
    IN ToString(tenths \div 10) \o "." \o ToString(tenths % 10) \o "%"

\* a harness that gives up, with an error report, when an encoder fails
Attempt_abort(method, entry) ==
    /\ attempts' = (method :> (entry # None)) @@ attempts
    /\ results' = IF results.status = "error" THEN results
                  ELSE IF entry = None
                  THEN [status |-> "error", operation |-> "CCSDS FEC Comparison",
                        message |-> method]
                  ELSE [results EXCEPT !.methods = (method :> entry) @@ @]
    /\ UNCHANGED server

\* one try block: the entry is stored under the method's name when the block
\* got to its end, and "except: pass" leaves the report as it was otherwise
Attempt(method, entry) ==
    /\ attempts' = (method :> (entry # None)) @@ attempts
    /\ results' = IF entry = None THEN results
                  ELSE [results EXCEPT !.methods = (method :> entry) @@ @]
    /\ UNCHANGED server

\* the caller invokes ccsds_fec_comparison(test_data): the text is encoded and
\* the report is set up, or the outer handler returns the error report
CompareCall(test_data) ==
    /\ pc = "idle"
    /\ op' = [name |-> "ccsds_fec_comparison", arg |-> test_data]
    /\ raised' = "none"
    /\ attempts' = <<>>
    /\ IF ~Encodable(test_data)
       THEN /\ ret' = [kind |-> "json",
                       value |-> [status |-> "error",
                                  operation |-> "CCSDS FEC Comparison",
                                  message |-> "surrogates not allowed"]]
            /\ UNCHANGED <<pc, results>>
       ELSE /\ ret' = None
            /\ results' = [status |-> "success",
                           operation |-> "CCSDS FEC Comparison",
                           test_data |-> test_data,
                           original_size |-> Len(Utf8Encode(test_data)),
                           methods |-> <<>>]
            /\ pc' = "compare_rs"
    /\ UNCHANGED <<registry, codec, caller, locals, rs_out, conv_out, first, pk>>
    /\ UNCHANGED server

\* the entry of the first try block for one outcome of the engine call, None
\* when the block raises
RSEntry(engine) ==
    IF RSEncodeRaises(engine) # "none" THEN None
    ELSE LET out == RSEncodeResult(RSObject("CCSDS_rs255_223"), data_bytes, engine)
             grown == Len(out.encoded) - Len(data_bytes)
         IN IF TrueDiv(grown, Len(data_bytes)) = ZeroDivisionError THEN None
            ELSE out.stats @@
                 [encoded_size |-> Len(out.encoded),
                  overhead |-> FormatPercent(Number(grown * 100, Len(data_bytes)))]

\* first try block: CCSDSReedSolomon("CCSDS_rs255_223").encode(data_bytes)
CompareRS ==
    /\ pc = "compare_rs"
    /\ \E engine \in EngineEncode(data_bytes, RSObject("CCSDS_rs255_223").codec.nsym) :
          Attempt("Reed-Solomon (255,223)", RSEntry(engine))
    /\ pc' = "compare_bits"
    /\ UNCHANGED <<registry, codec, op, caller, locals, rs_out, conv_out, ret, raised,
                   first, pk>>
    /\ UNCHANGED server

\* second try block, up to the call: the bits of data_bytes are handed to
\* CCSDSConvolutionalCode("CCSDS_k3_r12").encode
CompareConvCall ==
    /\ pc = "compare_bits"
    /\ pc' = "encode"
    /\ caller' = "comparison"
    /\ input_bits' = BytesToBits(data_bytes)
    /\ pos' = 0
    /\ nflush' = 0
    /\ state' = StartState
    /\ encoded' = StartEncoded
    /\ UNCHANGED <<registry, codec, op, rs_out, conv_out, ret, raised, first,
                   results, attempts, pk>>
    /\ UNCHANGED server

\* a second entry whose overhead is "0.0%" for empty data instead of raising
ConvEntry_guarded(out) ==
    IF out = ZeroDivisionError THEN None
    ELSE out.stats @@
         [encoded_bits |-> Len(out.encoded),
          encoded_bytes |-> (Len(out.encoded) + 7) \div 8,
          overhead |-> IF Len(data_bytes) = 0 THEN "0.0%"
                       ELSE FormatPercent(
                               Number((Len(out.encoded) - Len(data_bytes) * 8) * 100,
                                      Len(data_bytes) * 8))]

\* the entry of the second try block, None when the block raises
ConvEntry(out) ==
    IF out = ZeroDivisionError THEN None
    ELSE IF TrueDiv(Len(out.encoded), Len(data_bytes) * 8) = ZeroDivisionError THEN None
    ELSE out.stats @@
         [encoded_bits |-> Len(out.encoded),
          encoded_bytes |-> (Len(out.encoded) + 7) \div 8,
          overhead |-> FormatPercent(
                          Number((Len(out.encoded) - Len(data_bytes) * 8) * 100,
                                 Len(data_bytes) * 8))]

\* second try block, after the call returned
CompareConv ==
    /\ pc = "compare_conv"
    /\ Attempt("Convolutional (K=7, Rate 1/2)", ConvEntry(conv_out))
    /\ pc' = "compare_turbo"
    /\ caller' = "client"
    /\ conv_out' = None
    /\ UNCHANGED <<registry, codec, op, locals, rs_out, ret, raised, first, pk>>
    /\ UNCHANGED server

\* the entry of the third and the fourth try block
RepetitionEntry(out) ==
    out.stats @@ [encoded_size |-> Len(B64Decode(out.encoded)),
                  overhead |-> "100% (demonstration)"]

\* third try block: CCSDSTurboCodes().encode(data_bytes)
CompareTurbo ==
    /\ pc = "compare_turbo"
    /\ Attempt("Turbo Code", RepetitionEntry(TurboEncode(TurboObject(DefaultFrameSize), data_bytes)))
    /\ pc' = "compare_ldpc"
    /\ UNCHANGED <<registry, codec, op, caller, locals, rs_out, conv_out, ret, raised,
                   first, pk>>
    /\ UNCHANGED server

\* a last step that hands a failure of an earlier block to the outer handler
CompareLDPC_reraise ==
    /\ pc = "compare_ldpc"
    /\ Attempt("LDPC Code", RepetitionEntry(LDPCEncode(LDPCObject(DefaultRate), data_bytes)))
    /\ ret' = [kind |-> "json",
               value |-> IF \A method \in DOMAIN attempts : attempts[method]
                         THEN results'
                         ELSE [status |-> "error",
                               operation |-> "CCSDS FEC Comparison",
                               message |-> "encoder failed"]]
    /\ pc' = "idle"
    /\ UNCHANGED <<registry, codec, op, caller, locals, rs_out, conv_out, raised,
                   first, pk>>
    /\ UNCHANGED server

\* fourth try block: CCSDSLDPCCodes().encode(data_bytes), and the return of the
\* report
CompareLDPC ==
    /\ pc = "compare_ldpc"
    /\ Attempt("LDPC Code", RepetitionEntry(LDPCEncode(LDPCObject(DefaultRate), data_bytes)))
    /\ ret' = [kind |-> "json", value |-> results']
    /\ pc' = "idle"
    /\ UNCHANGED <<registry, codec, op, caller, locals, rs_out, conv_out, raised,
                   first, pk>>
    /\ UNCHANGED server

-----------------------------------------------------------------------------
(* ccsds_convolution_encode *)

\* "Parse input bits": int() of every comma-separated piece, or of every
\* character that is no space
ParseBits(text) ==
    LET tokens == IF \E i \in 1..Len(text) : text[i] = ","
                  THEN Split(text, ",")
                  ELSE [i \in 1..Len(Unspaced(text)) |-> <<Unspaced(text)[i]>>]
    IN [t \in 1..Len(tokens) |-> IntOf(tokens[t])]

\* an error report without the operation name
ErrorReport_bare(operation, message) ==
    [kind |-> "json", value |-> [status |-> "error", message |-> message]]

\* the report of the handler "except Exception as e"
ErrorReport(operation, message) ==
    [kind |-> "json",
     value |-> [status |-> "error", operation |-> operation, message |-> message]]

\* the caller invokes ccsds_convolution_encode(input_bits, standard)
ConvTool(text, standard) ==
    /\ pc = "idle"
    /\ ret = None
    /\ op' = [name |-> "ccsds_convolution_encode", arg |-> <<text, standard>>]
    /\ raised' = "none"
    /\ LET parsed == ParseBits(text)
       IN IF \E t \in 1..Len(parsed) : parsed[t] = ValueError
          THEN ret' = ErrorReport("CCSDS Convolutional Encoding",
                                  "invalid literal for int() with base 10")
          ELSE IF standard \notin DOMAIN STANDARD_POLYNOMIALS
          THEN ret' = ErrorReport("CCSDS Convolutional Encoding",
                                  "Unknown standard: " \o standard)
          ELSE LET bits == [t \in 1..Len(parsed) |-> parsed[t].value]
                   out == EncodeResult(ConvObject(standard), bits)
               IN ret' = [kind |-> "json",
                          value |-> out.stats @@
                             [status |-> "success",
                              operation |-> "CCSDS Convolutional Encoding",
                              standard |-> standard,
                              description |-> params(ConvObject(standard)).description,
                              input_bits |-> JoinInts(bits),
                              encoded_bits |-> JoinInts(out.encoded)]]
    /\ UNCHANGED <<registry, codec, pc, caller, locals, rs_out, conv_out, first,
                   results, attempts, pk>>
    /\ UNCHANGED server

-----------------------------------------------------------------------------
(* ccsds_reed_solomon_encode, ccsds_concatenated_encode, ccsds_turbo_encode, *)
(* ccsds_ldpc_encode *)

\* the caller invokes ccsds_reed_solomon_encode(data, standard)
RSTool(data, standard) ==
    /\ pc = "idle"
    /\ ret = None
    /\ op' = [name |-> "ccsds_reed_solomon_encode", arg |-> <<data, standard>>]
    /\ raised' = "none"
    /\ IF ~Encodable(data)
       THEN ret' = ErrorReport("CCSDS Reed-Solomon Encoding", "surrogates not allowed")
       ELSE IF standard \notin DOMAIN STANDARD_CONFIGS
       THEN ret' = ErrorReport("CCSDS Reed-Solomon Encoding",
                               "Unknown standard: " \o standard)
       ELSE \E engine \in EngineEncode(Utf8Encode(data), RSObject(standard).codec.nsym) :
               IF RSEncodeRaises(engine) # "none"
               THEN ret' = ErrorReport("CCSDS Reed-Solomon Encoding",
                                       RSEncodeRaises(engine))
               ELSE LET out == RSEncodeResult(RSObject(standard), Utf8Encode(data),
                                              engine)
                    IN ret' = [kind |-> "json",
                               value |-> out.stats @@
                                  [status |-> "success",
                                   operation |-> "CCSDS Reed-Solomon Encoding",
                                   standard |-> standard,
                                   description |-> config(RSObject(standard)).description,
                                   original_data |-> data,
                                   encoded_data_base64 |-> B64Encode(out.encoded)]]
    /\ UNCHANGED <<registry, codec, pc, caller, locals, rs_out, conv_out, first,
                   results, attempts, pk>>
    /\ UNCHANGED server

\* what CCSDSConcatenatedCode.encode returns when the inner encode returned
\* rs_result: the outer encode, the packing, base64 and the stats, as one step
ConcatResult(self, data, rs_result) ==
    LET conv == EncodeResult(self.conv_code, BytesToBits(rs_result.encoded))
        output_bytes == BitsToBytes(conv.encoded)
    IN [kind |-> "tuple", encoded |-> B64Encode(output_bytes),
        stats |-> ConcatStats(data, rs_result.stats, conv.encoded, output_bytes)]

\* the caller invokes ccsds_concatenated_encode(data, conv_standard, rs_standard)
ConcatTool(data, conv_standard, rs_standard) ==
    /\ pc = "idle"
    /\ ret = None
    /\ op' = [name |-> "ccsds_concatenated_encode",
              arg |-> <<data, conv_standard, rs_standard>>]
    /\ raised' = "none"
    /\ IF ~Encodable(data)
       THEN ret' = ErrorReport("CCSDS Concatenated Code Encoding",
                               "surrogates not allowed")
       ELSE IF conv_standard \notin DOMAIN STANDARD_POLYNOMIALS
       THEN ret' = ErrorReport("CCSDS Concatenated Code Encoding",
                               "Unknown standard: " \o conv_standard)
       ELSE IF rs_standard \notin DOMAIN STANDARD_CONFIGS
       THEN ret' = ErrorReport("CCSDS Concatenated Code Encoding",
                               "Unknown standard: " \o rs_standard)
       ELSE \E engine \in EngineEncode(Utf8Encode(data),
                                      RSObject(rs_standard).codec.nsym) :
               IF RSEncodeRaises(engine) # "none"
               THEN ret' = ErrorReport("CCSDS Concatenated Code Encoding",
                                       RSEncodeRaises(engine))
               ELSE LET self == ConcatObject(conv_standard, rs_standard)
                        out == ConcatResult(self, Utf8Encode(data),
                                  RSEncodeResult(self.rs_code, Utf8Encode(data), engine))
                    IN ret' = [kind |-> "json",
                               value |-> out.stats @@
                                  [status |-> "success",
                                   operation |-> "CCSDS Concatenated Code Encoding",
                                   outer_code |-> conv_standard,
                                   inner_code |-> rs_standard,
                                   original_data |-> data,
                                   encoded_data_base64 |-> out.encoded]]
    /\ UNCHANGED <<registry, codec, pc, caller, locals, rs_out, conv_out, first,
                   results, attempts, pk>>
    /\ UNCHANGED server

\* "int(frame_size) if isinstance(frame_size, str) else frame_size"
FrameSizeOf(frame_size) ==
    IF frame_size.kind = "str" THEN IntOf(frame_size.text)
    ELSE [kind |-> "int", value |-> frame_size.value]

\* the caller invokes ccsds_turbo_encode(data, frame_size)
TurboTool(data, frame_size) ==
    /\ pc = "idle"
    /\ ret = None
    /\ op' = [name |-> "ccsds_turbo_encode", arg |-> <<data, frame_size>>]
    /\ raised' = "none"
    /\ IF ~Encodable(data)
       THEN ret' = ErrorReport("CCSDS Turbo Code Encoding", "surrogates not allowed")
       ELSE IF FrameSizeOf(frame_size) = ValueError
       THEN ret' = ErrorReport("CCSDS Turbo Code Encoding",
                               "invalid literal for int() with base 10")
       ELSE LET out == TurboEncode(TurboObject(FrameSizeOf(frame_size).value),
                                   Utf8Encode(data))
            IN ret' = [kind |-> "json",
                       value |-> out.stats @@
                          [status |-> "success",
                           operation |-> "CCSDS Turbo Code Encoding",
                           original_data |-> data,
                           encoded_data_base64 |-> out.encoded]]
    /\ UNCHANGED <<registry, codec, pc, caller, locals, rs_out, conv_out, first,
                   results, attempts, pk>>
    /\ UNCHANGED server

\* the caller invokes ccsds_ldpc_encode(data, code_rate)
LDPCTool(data, code_rate) ==
    /\ pc = "idle"
    /\ ret = None
    /\ op' = [name |-> "ccsds_ldpc_encode", arg |-> <<data, code_rate>>]
    /\ raised' = "none"
    /\ IF ~Encodable(data)
       THEN ret' = ErrorReport("CCSDS LDPC Code Encoding", "surrogates not allowed")
       ELSE IF RateParts(code_rate) = ValueError
       THEN ret' = ErrorReport("CCSDS LDPC Code Encoding", "ValueError")
       ELSE LET out == LDPCEncode(LDPCObject(code_rate), Utf8Encode(data))
            IN IF out = ZeroDivisionError
               THEN ret' = ErrorReport("CCSDS LDPC Code Encoding",
                                       "integer division or modulo by zero")
               ELSE ret' = [kind |-> "json",
                            value |-> out.stats @@
                               [status |-> "success",
                                operation |-> "CCSDS LDPC Code Encoding",
                                original_data |-> data,
                                encoded_data_base64 |-> out.encoded]]
    /\ UNCHANGED <<registry, codec, pc, caller, locals, rs_out, conv_out, first,
                   results, attempts, pk>>
    /\ UNCHANGED server

-----------------------------------------------------------------------------
(* The caller *)

\* most bytes the caller hands to a Reed-Solomon or concatenated encode
MaxData == 1

\* the byte values the caller's data is made of ("T" and 0xA5)
DataBytes == {84, 165}

RECURSIVE SeqsUpTo(_, _)
SeqsUpTo(S, n) ==
    IF n = 0 THEN {<<>>}
    ELSE LET shorter == SeqsUpTo(S, n - 1)
         IN shorter \cup {Append(s, x) : s \in {t \in shorter : Len(t) = n - 1}, x \in S}

\* the bit list of test_ccsds_k7_r12_encode
TestVectors == {<<1, 0, 1, 1, 0>>}

BitInputs == SeqsUpTo({0, 1}, MaxBits) \cup TestVectors
\* the data of TestCCSDSConcatenatedCode: b"Test Data"
TestData == <<84, 101, 115, 116, 32, 68, 97, 116, 97>>

DataInputs == SeqsUpTo(DataBytes, MaxData)
ConcatInputs == DataInputs \cup {TestData}

\* what the caller hands to decode: codewords an encode may have returned, one of
\* them with its first byte altered
CodewordInputs ==
    LET sent == {c.item0 : c \in {e \in UNION {EngineEncode(d, n) : d \in DataInputs,
                                                                    n \in {16, 32}} :
                                     e.kind = "value"}}
    IN sent \cup {[c EXCEPT ![1] = 255 - c[1]] : c \in {x \in sent : Len(x) > 0}}

Init ==
    /\ STANDARD_POLYNOMIALS = PolynomialsTable
    /\ STANDARD_CONFIGS = ConfigsTable
    /\ codec = None
    /\ op = [name |-> "none", arg |-> <<>>]
    /\ pc = "idle"
    /\ caller = "client"
    /\ input_bits = <<>>
    /\ pos = 0
    /\ nflush = 0
    /\ state = 0
    /\ encoded = <<>>
    /\ rs_out = None
    /\ conv_out = None
    /\ ret = None
    /\ raised = "none"
    /\ first = None
    /\ results = None
    /\ attempts = <<>>
    /\ pk = None
    /\ connected_clients = {}
    /\ client_threads = <<>>
    /\ handlers = <<>>

-----------------------------------------------------------------------------
(* The packing layer on its own: the two inline conversions applied to a *)
(* sequence, once each, in the order that starts from what the sequence is *)

\* most bytes and most bits the packing pipeline starts from
MaxPackBytes == 2
MaxPackBits == 9

\* byte values with every bit position set and clear among them
PackByteValues == {0, 1, 84, 128, 165, 255}

PackInputs ==
    {[from |-> "bytes", orig |-> B, now |-> B, done |-> <<>>] :
        B \in SeqsUpTo(PackByteValues, MaxPackBytes)}
    \cup {[from |-> "bits", orig |-> b, now |-> b, done |-> <<>>] :
        b \in SeqsUpTo({0, 1}, MaxPackBits)}

\* what pk.now is a sequence of
PkHolds ==
    IF (pk.from = "bytes") = (Len(pk.done) % 2 = 0) THEN "bytes" ELSE "bits"

\* lines 184-187 applied to the bytes the pipeline holds
Unpack ==
    /\ pk # None
    /\ Len(pk.done) < 2
    /\ PkHolds = "bytes"
    /\ pk' = [pk EXCEPT !.now = BytesToBits(pk.now),
                        !.done = Append(@, "bytes_to_bits")]
    /\ UNCHANGED <<registry, codec, op, pc, caller, locals, rs_out, conv_out, ret,
                   raised, first, results, attempts>>
    /\ UNCHANGED server

\* lines 192-201 applied to the bits the pipeline holds
Pack ==
    /\ pk # None
    /\ Len(pk.done) < 2
    /\ PkHolds = "bits"
    /\ pk' = [pk EXCEPT !.now = BitsToBytes(pk.now),
                        !.done = Append(@, "bits_to_bytes")]
    /\ UNCHANGED <<registry, codec, op, pc, caller, locals, rs_out, conv_out, ret,
                   raised, first, results, attempts>>
    /\ UNCHANGED server

InitPack ==
    /\ STANDARD_POLYNOMIALS = PolynomialsTable
    /\ STANDARD_CONFIGS = ConfigsTable
    /\ codec = None
    /\ op = [name |-> "none", arg |-> <<>>]
    /\ pc = "idle"
    /\ caller = "client"
    /\ input_bits = <<>>
    /\ pos = 0
    /\ nflush = 0
    /\ state = 0
    /\ encoded = <<>>
    /\ rs_out = None
    /\ conv_out = None
    /\ ret = None
    /\ raised = "none"
    /\ first = None
    /\ results = None
    /\ attempts = <<>>
    /\ pk \in PackInputs
    /\ connected_clients = {}
    /\ client_threads = <<>>
    /\ handlers = <<>>

NextPack == Unpack \/ Pack

SpecPack == InitPack /\ [][NextPack]_vars

-----------------------------------------------------------------------------
(* The toolkit and its caller *)

Next ==
    \/ \E standard \in StandardNames : ConvInit(standard)
    \/ \E standard \in StandardNames : RSInit(standard)
    \/ \E conv_standard \in StandardNames, rs_standard \in StandardNames :
          ConcatInit(conv_standard, rs_standard)
    \/ \E bits \in BitInputs : ConvEncodeCall(bits)
    \/ EncodeInputStep
    \/ EncodeFlushStep
    \/ EncodeReturn
    \/ \E data \in DataInputs : RSEncode(data)
    \/ \E encoded_data \in CodewordInputs : RSDecode(encoded_data)
    \/ \E data \in ConcatInputs : ConcatEncodeCall(data)
    \/ ConcatPack

Spec == Init /\ [][Next]_vars


-----------------------------------------------------------------------------
(* The comparison harness and its caller *)

\* most code points of a text handed to ccsds_fec_comparison
MaxText == 2

\* "T", U+00E9 (two bytes in UTF-8) and the lone surrogate U+D800
TextChars == {84, 233, 55296}

\* the text of test_comparison_contains_all_methods: "Test"
TestText == <<84, 101, 115, 116>>

TextInputs == SeqsUpTo(TextChars, MaxText) \cup {TestText}

NextCompare ==
    \/ \E test_data \in TextInputs : CompareCall(test_data)
    \/ CompareRS
    \/ CompareConvCall
    \/ EncodeInputStep
    \/ EncodeFlushStep
    \/ EncodeReturn
    \/ CompareConv
    \/ CompareTurbo
    \/ CompareLDPC

SpecCompare == Init /\ [][NextCompare]_vars

-----------------------------------------------------------------------------
(* convolution_encode, the generic tool of encoding_tools *)

\* "constraint_length = 3"
constraint_length == 3

RECURSIVE OctalValue(_, _)
OctalValue(digits, value) ==
    IF digits = <<>> THEN value
    ELSE OctalValue(Tail(digits), 8 * value + DigitValue(Head(digits)))

\* int(text, 8), for unsigned text without prefix: surrounding spaces are
\* ignored, what is left must be one or more digits below 8
IntOfBase8(text) ==
    LET literal == Strip(text)
    IN IF \/ literal = <<>>
          \/ \E i \in 1..Len(literal) :
                ~IsDigit(literal[i]) \/ DigitValue(literal[i]) > 7
       THEN ValueError
       ELSE [kind |-> "int", value |-> OctalValue(literal, 0)]

\* the list gen_poly, each element an int or the ValueError of its piece
ParseGenerators(generator_polynomial) ==
    LET tokens == IF \E i \in 1..Len(generator_polynomial) :
                        generator_polynomial[i] = ","
                  THEN Split(generator_polynomial, ",")
                  ELSE <<generator_polynomial>>
    IN [t \in 1..Len(tokens) |-> IntOfBase8(tokens[t])]

\* "state = ((state << 1) | bit) & ((1 << constraint_length) - 1)"
GenericShiftIn(st, bit) == BitOr(2 * st, bit) % Pow2(constraint_length)

\* the loop "for bit in bits" with K - 1 more iterations that shift in a 0
RECURSIVE GenericEncode_flushed(_, _, _)
GenericEncode_flushed(bits, gen_poly, st) ==
    IF bits = <<>>
    THEN EmitBits(gen_poly, GenericShiftIn(st, 0), constraint_length)
         \o EmitBits(gen_poly, GenericShiftIn(GenericShiftIn(st, 0), 0),
                     constraint_length)
    ELSE EmitBits(gen_poly, GenericShiftIn(st, Head(bits)), constraint_length)
         \o GenericEncode_flushed(Tail(bits), gen_poly, GenericShiftIn(st, Head(bits)))

\* the loop "for bit in bits" with a register and a parity of 7 bits
RECURSIVE GenericEncode_seven(_, _, _)
GenericEncode_seven(bits, gen_poly, st) ==
    IF bits = <<>> THEN <<>>
    ELSE EmitBits(gen_poly, BitOr(2 * st, Head(bits)) % Pow2(7), 7)
         \o GenericEncode_seven(Tail(bits), gen_poly, BitOr(2 * st, Head(bits)) % Pow2(7))

\* the loop "for bit in bits": what it appends to encoded, from register st
RECURSIVE GenericEncode(_, _, _)
GenericEncode(bits, gen_poly, st) ==
    IF bits = <<>> THEN <<>>
    ELSE EmitBits(gen_poly, GenericShiftIn(st, Head(bits)), constraint_length)
         \o GenericEncode(Tail(bits), gen_poly, GenericShiftIn(st, Head(bits)))

\* what convolution_encode(bit_text, generator_polynomial) returns
GenericResult(bit_text, generator_polynomial) ==
    LET parsed == ParseBits(bit_text)
        gens == ParseGenerators(generator_polynomial)
    IN IF \E t \in 1..Len(parsed) : parsed[t] = ValueError
       THEN ErrorReport("Convolution Encoding",
                        "invalid literal for int() with base 10")
       ELSE IF \E g \in 1..Len(gens) : gens[g] = ValueError
       THEN ErrorReport("Convolution Encoding",
                        "invalid literal for int() with base 8")
       ELSE LET bits == [t \in 1..Len(parsed) |-> parsed[t].value]
                gen_poly == [g \in 1..Len(gens) |-> gens[g].value]
                out == GenericEncode(bits, gen_poly, StartState)
            IN [kind |-> "json",
                value |-> [status |-> "success",
                           operation |-> "Convolution Encoding",
                           input_bits |-> JoinInts(bits),
                           input_length |-> Len(bits),
                           generator_polynomial |-> generator_polynomial,
                           constraint_length |-> constraint_length,
                           code_rate |-> "1/" \o ToString(Len(gen_poly)),
                           encoded_bits |-> JoinInts(out),
                           encoded_length |-> Len(out),
                           expansion_ratio |-> IF Len(bits) > 0
                                               THEN Number(Len(out), Len(bits))
                                               ELSE Zero]]

\* the caller invokes convolution_encode(bit_text, generator_polynomial)
convolution_encode(bit_text, generator_polynomial) ==
    /\ pc = "idle"
    /\ ret = None
    /\ op' = [name |-> "convolution_encode",
              arg |-> <<bit_text, generator_polynomial>>]
    /\ raised' = "none"
    /\ ret' = GenericResult(bit_text, generator_polynomial)
    /\ UNCHANGED <<registry, codec, pc, caller, locals, rs_out, conv_out, first,
                   results, attempts, pk>>
    /\ UNCHANGED server

-----------------------------------------------------------------------------
(* The tool functions and their caller *)

\* most characters of a bit text handed to ccsds_convolution_encode
MaxChars == 3

\* the characters bit texts are made of: bits, another digit, the two
\* separators, and a letter
BitChars == {"0", "1", "2", ",", " ", "a"}

\* "1, 0, 1" of the integration tests, and a text with a two-digit piece
BitTexts ==
    SeqsUpTo(BitChars, MaxChars)
    \cup {<<"1", ",", " ", "0", ",", " ", "1">>, <<"1", ",", "1", "0">>}

\* the frame sizes handed to ccsds_turbo_encode: the default, as an int and as
\* text, and text that is no number
FrameSizes ==
    {[kind |-> "int", value |-> DefaultFrameSize],
     [kind |-> "str", text |-> <<"6", "1", "4", "4">>],
     [kind |-> "str", text |-> <<"a">>]}

\* the rates handed to ccsds_ldpc_encode: "1/2", "1/3", "2/3", "2/1", "0/1",
\* and text that is no rate
RateTexts ==
    {DefaultRate, <<"1", "/", "3">>, <<"2", "/", "3">>, <<"2", "/", "1">>,
     <<"0", "/", "1">>, <<"a">>, <<"1">>, <<"1", "/", "2", "/", "3">>}

\* the names of the five encode tools
EncodeTools ==
    {"ccsds_convolution_encode", "ccsds_reed_solomon_encode",
     "ccsds_concatenated_encode", "ccsds_turbo_encode", "ccsds_ldpc_encode"}

\* the agent takes the JSON text a tool returned; the tools keep nothing
\* between calls
TakeResponse ==
    /\ pc = "idle"
    /\ op.name \in EncodeTools \cup {"convolution_encode"}
    /\ ret # None
    /\ op' = [name |-> "none", arg |-> <<>>]
    /\ ret' = None
    /\ UNCHANGED <<registry, codec, pc, caller, locals, rs_out, conv_out, first,
                   raised, results, attempts, pk>>
    /\ UNCHANGED server

NextTools ==
    \/ \E text \in BitTexts, standard \in StandardNames : ConvTool(text, standard)
    \/ \E data \in TextInputs, standard \in StandardNames : RSTool(data, standard)
    \/ \E data \in TextInputs, conv_standard \in StandardNames,
          rs_standard \in StandardNames :
             ConcatTool(data, conv_standard, rs_standard)
    \/ \E data \in TextInputs, frame_size \in FrameSizes : TurboTool(data, frame_size)
    \/ \E data \in TextInputs, code_rate \in RateTexts : LDPCTool(data, code_rate)
    \/ TakeResponse
    \/ NextCompare

SpecTools == Init /\ [][NextTools]_vars

\* position by position a XOR b of two 0/1 lists of equal length
XorLists(a, b) == [i \in 1..Len(a) |-> IF a[i] = b[i] THEN 0 ELSE 1]

\* a registry standard and two 0/1 inputs of equal length for its encoder
PairInputs ==
    {pair \in {[standard |-> standard, a |-> a, b |-> b, out |-> None] :
                  standard \in DOMAIN PolynomialsTable,
                  a \in BitInputs, b \in BitInputs} :
        Len(pair.a) = Len(pair.b)}

InitPair ==
    /\ STANDARD_POLYNOMIALS = PolynomialsTable
    /\ STANDARD_CONFIGS = ConfigsTable
    /\ codec = None
    /\ op = [name |-> "none", arg |-> <<>>]
    /\ pc = "idle"
    /\ caller = "client"
    /\ input_bits = <<>>
    /\ pos = 0
    /\ nflush = 0
    /\ state = 0
    /\ encoded = <<>>
    /\ rs_out = None
    /\ conv_out = None
    /\ ret = None
    /\ raised = "none"
    /\ first = None
    /\ results = None
    /\ attempts = <<>>
    /\ pk \in PairInputs
    /\ connected_clients = {}
    /\ client_threads = <<>>
    /\ handlers = <<>>

\* CCSDSConvolutionalCode(standard).encode applied to a, to b and to a XOR b
EncodePair ==
    /\ pk.out = None
    /\ LET self == ConvObject(pk.standard)
       IN pk' = [pk EXCEPT !.out =
                    [of_a |-> EncodeResult(self, pk.a).encoded,
                     of_b |-> EncodeResult(self, pk.b).encoded,
                     of_xor |-> EncodeResult(self, XorLists(pk.a, pk.b)).encoded]]
    /\ UNCHANGED <<registry, codec, op, pc, caller, locals, rs_out, conv_out, ret,
                   raised, first, results, attempts>>
    /\ UNCHANGED server

NextPair == EncodePair

SpecPair == InitPair /\ [][NextPair]_vars

\* the bit texts handed to convolution_encode, with "10110" and "00000" of its
\* tests
GenericBitTexts ==
    SeqsUpTo({"0", "1", "2", ","}, MaxChars)
    \cup {<<"1", "0", "1", "1", "0">>, <<"0", "0", "0", "0", "0">>}

\* the generator texts: those of the tests, lists that agree with them modulo
\* 8, and text that does not parse
GeneratorTexts ==
    {<<"7", ",", "5">>, <<"7", ",", "5", ",", "3">>, <<"7">>,
     <<"1", "7", "1", ",", "1", "3", "3">>, <<"1", ",", "3">>,
     <<"1", "7", ",", "1", "5">>, <<"1", "7", ",", " ", "5">>,
     <<"8">>, <<>>, <<"7", ",">>}

NextGeneric ==
    \/ \E bit_text \in GenericBitTexts, generator_polynomial \in GeneratorTexts :
          convolution_encode(bit_text, generator_polynomial)
    \/ TakeResponse

SpecGeneric == Init /\ [][NextGeneric]_vars

-----------------------------------------------------------------------------
(* handle_client: the WebSocket handler of cooking_agent.py and fec_test.py *)

\* the connections the server accepts, one handle_client coroutine each
Websockets == {"ws1", "ws2"}

\* most messages the clients send, all connections together
MaxMessages == 2

\* most chunks agent.run_stream yields, all requests together
MaxChunks == 2

\* chunk.text of the chunks the agent yields; "" is a chunk without text
ChunkTexts == {"", "a", "b"}

\* what a client sends: text that is no JSON, an object without "message",
\* and objects whose "message" is blank, an exit word in capitals with a
\* space in front, or a request
Messages ==
    {[json |-> "invalid"],
     [json |-> "object"],
     [json |-> "object", message |-> <<" ">>],
     [json |-> "object", message |-> <<" ", "B", "Y", "E">>],
     [json |-> "object", message |-> <<"h", "i">>]}

\* str.lower() on the letters that occur
Lower(text) ==
    [i \in 1..Len(text) |->
        CASE text[i] = "B" -> "b"
          [] text[i] = "Y" -> "y"
          [] text[i] = "E" -> "e"
          [] OTHER -> text[i]]

\* ['exit', 'quit', 'bye', 'goodbye']
ExitWords ==
    {<<"e", "x", "i", "t">>, <<"q", "u", "i", "t">>, <<"b", "y", "e">>,
     <<"g", "o", "o", "d", "b", "y", "e">>}

\* a handler that was not started yet
Unborn ==
    [pc |-> "unborn", within |-> "outer", pending |-> None,
     response_text |-> "", chunks |-> 0, received |-> <<>>, sent |-> <<>>]

\* the handler of ws stands at "await websocket.send(json.dumps(message))",
\* issued in the outer try, in the inner try, in an except clause, or in the
\* except clause entered because the connection is lost
AwaitSend(h, message, within) ==
    [h EXCEPT !.pc = "send", !.pending = message, !.within = within]

Welcome == [type |-> "welcome", status |-> "ready"]

ErrorMessage(message) == [type |-> "error", message |-> message]

Farewell == [type |-> "farewell"]

\* the cleanup that leaves the thread in client_threads
Cleanup_keep_thread(ws, h) ==
    /\ connected_clients' = connected_clients \ {ws}
    /\ client_threads' = client_threads
    /\ handlers' = [handlers EXCEPT ![ws] = [h EXCEPT !.pc = "finished",
                                                      !.pending = None,
                                                      !.within = "outer"]]

\* the finally clause: discard and pop, then the coroutine, whose locals are
\* h, ends
Cleanup(ws, h) ==
    /\ connected_clients' = connected_clients \ {ws}
    /\ client_threads' = [w \in DOMAIN client_threads \ {ws} |-> client_threads[w]]
    /\ handlers' = [handlers EXCEPT ![ws] = [h EXCEPT !.pc = "finished",
                                                      !.pending = None,
                                                      !.within = "outer"]]

\* everything outside the server
library ==
    <<registry, codec, op, pc, caller, locals, rs_out, conv_out, ret, raised,
      first, results, attempts, pk>>

\* a client connects: handle_client(ws) runs up to "await create_agent()"
Connect(ws) ==
    /\ handlers[ws].pc = "unborn"
    /\ connected_clients' = connected_clients \cup {ws}
    /\ handlers' = [handlers EXCEPT ![ws].pc = "create_agent"]
    /\ UNCHANGED <<client_threads, library>>

\* the agent is there: the thread is stored and the welcome is being sent
AgentCreated(ws) ==
    /\ handlers[ws].pc = "create_agent"
    /\ client_threads' = (ws :> [thread_of |-> ws]) @@ client_threads
    /\ handlers' = [handlers EXCEPT ![ws] = AwaitSend(@, Welcome, "outer")]
    /\ UNCHANGED <<connected_clients, library>>

\* creating the agent raised: outer except, then finally
AgentFails(ws) ==
    /\ handlers[ws].pc = "create_agent"
    /\ Cleanup(ws, handlers[ws])
    /\ UNCHANGED library

\* the body of "async for message in websocket" up to its first await
Handle(h, message) ==
    IF message.json = "invalid"
    THEN AwaitSend(h, ErrorMessage("Invalid JSON format. Please send a valid message."),
                   "except")
    ELSE LET user_input == IF "message" \in DOMAIN message THEN Strip(message.message)
                           ELSE <<>>
         IN IF user_input = <<>>
            THEN AwaitSend(h, ErrorMessage("Please enter a question or request."), "try")
            ELSE IF Lower(user_input) \in ExitWords
            THEN AwaitSend(h, Farewell, "try")
            ELSE [h EXCEPT !.pc = "stream", !.response_text = ""]

\* the messages received so far on the connections of the set
RECURSIVE ReceivedOn(_)
ReceivedOn(connections) ==
    IF connections = {} THEN 0
    ELSE LET ws == CHOOSE w \in connections : TRUE
         IN Len(handlers[ws].received) + ReceivedOn(connections \ {ws})

\* the next message of the client arrives
Receive(ws, message) ==
    /\ handlers[ws].pc = "receive"
    /\ ReceivedOn(Websockets) < MaxMessages
    /\ handlers' = [handlers EXCEPT
                       ![ws] = Handle([@ EXCEPT !.received = Append(@, message)],
                                      message)]
    /\ UNCHANGED <<connected_clients, client_threads, library>>

\* the client has closed the connection: the message loop ends, or raises
\* ConnectionClosedError, and the finally clause runs
ReceiveEnds(ws) ==
    /\ handlers[ws].pc = "receive"
    /\ Cleanup(ws, handlers[ws])
    /\ UNCHANGED library

\* the chunks yielded so far to the handlers of the set
RECURSIVE ChunksOn(_)
ChunksOn(connections) ==
    IF connections = {} THEN 0
    ELSE LET ws == CHOOSE w \in connections : TRUE
         IN handlers[ws].chunks + ChunksOn(connections \ {ws})

\* a stream step that puts the new chunk in front of response_text
StreamChunk_prepend(ws, text) ==
    /\ handlers[ws].pc = "stream"
    /\ ChunksOn(Websockets) < MaxChunks
    /\ handlers' = [handlers EXCEPT
                       ![ws] = IF text = "" THEN [@ EXCEPT !.chunks = @ + 1]
                               ELSE AwaitSend([@ EXCEPT !.chunks = @ + 1,
                                                        !.response_text = text \o @],
                                              [type |-> "response_chunk", chunk |-> text],
                                              "try")]
    /\ UNCHANGED <<connected_clients, client_threads, library>>

\* agent.run_stream yields a chunk: one with text is added to response_text
\* and sent, one without is skipped
StreamChunk(ws, text) ==
    /\ handlers[ws].pc = "stream"
    /\ ChunksOn(Websockets) < MaxChunks
    /\ handlers' = [handlers EXCEPT
                       ![ws] = IF text = "" THEN [@ EXCEPT !.chunks = @ + 1]
                               ELSE AwaitSend([@ EXCEPT !.chunks = @ + 1,
                                                        !.response_text = @ \o text],
                                              [type |-> "response_chunk", chunk |-> text],
                                              "try")]
    /\ UNCHANGED <<connected_clients, client_threads, library>>

\* the stream is exhausted: the completion message is being sent
StreamEnds(ws) ==
    /\ handlers[ws].pc = "stream"
    /\ handlers' = [handlers EXCEPT
                       ![ws] = AwaitSend(@, [type |-> "response_complete",
                                             total_response |-> @.response_text],
                                         "try")]
    /\ UNCHANGED <<connected_clients, client_threads, library>>

\* the agent raises while streaming: "except Exception as e"
StreamFails(ws) ==
    /\ handlers[ws].pc = "stream"
    /\ handlers' = [handlers EXCEPT
                       ![ws] = AwaitSend(@, ErrorMessage("Error processing request: agent"),
                                         "except")]
    /\ UNCHANGED <<connected_clients, client_threads, library>>

\* the send went out: the handler runs on to its next await, or breaks out of
\* the loop after the farewell
SendDone(ws) ==
    /\ handlers[ws].pc = "send"
    /\ handlers[ws].within # "lost"
    /\ LET h == handlers[ws]
           after == [h EXCEPT !.sent = Append(@, h.pending), !.pending = None,
                              !.within = "outer"]
       IN IF h.pending.type = "farewell"
          THEN Cleanup(ws, after)
          ELSE /\ handlers' = [handlers EXCEPT
                                  ![ws] = [after EXCEPT
                                              !.pc = IF h.pending.type = "response_chunk"
                                                     THEN "stream" ELSE "receive"]]
               /\ UNCHANGED <<connected_clients, client_threads>>
    /\ UNCHANGED library

\* the connection is lost and the send raises ConnectionClosed: inside the
\* inner try the except clause tries to send an error message, which raises
\* again; anywhere else the handler ends
SendFails(ws) ==
    /\ handlers[ws].pc = "send"
    /\ IF handlers[ws].within = "try"
       THEN /\ handlers' = [handlers EXCEPT
                               ![ws] = AwaitSend(@,
                                          ErrorMessage("Error processing request: closed"),
                                          "lost")]
            /\ UNCHANGED <<connected_clients, client_threads>>
       ELSE Cleanup(ws, handlers[ws])
    /\ UNCHANGED library

InitServer ==
    /\ STANDARD_POLYNOMIALS = PolynomialsTable
    /\ STANDARD_CONFIGS = ConfigsTable
    /\ codec = None
    /\ op = [name |-> "none", arg |-> <<>>]
    /\ pc = "idle"
    /\ caller = "client"
    /\ input_bits = <<>>
    /\ pos = 0
    /\ nflush = 0
    /\ state = 0
    /\ encoded = <<>>
    /\ rs_out = None
    /\ conv_out = None
    /\ ret = None
    /\ raised = "none"
    /\ first = None
    /\ results = None
    /\ attempts = <<>>
    /\ pk = None
    /\ connected_clients = {}
    /\ client_threads = <<>>
    /\ handlers = [ws \in Websockets |-> Unborn]

NextServer ==
    \E ws \in Websockets :
       \/ Connect(ws)
       \/ AgentCreated(ws)
       \/ AgentFails(ws)
       \/ \E message \in Messages : Receive(ws, message)
       \/ ReceiveEnds(ws)
       \/ \E text \in ChunkTexts : StreamChunk(ws, text)
       \/ StreamEnds(ws)
       \/ StreamFails(ws)
       \/ SendDone(ws)
       \/ SendFails(ws)

SpecServer == InitServer /\ [][NextServer]_vars

-----------------------------------------------------------------------------
(* Properties *)

\* a call of CCSDSConvolutionalCode.encode by the caller has returned
ConvReturned == op.name = "CCSDSConvolutionalCode.encode" /\ ret # None

C2_LengthIsRTimesInput ==
    (/\ ConvReturned
     /\ codec.standard \in {"CCSDS_k3_r12", "CCSDS_k3_r13"}
     /\ Len(op.arg) > 0)
       => Len(ret.encoded) = Len(STANDARD_POLYNOMIALS[codec.standard].generators) * Len(op.arg)

\* C3: at the end of every encode call, after the K - 1 flush steps that each
\* shift in a 0, the shift register is 0, for every input and standard.
C3_RegisterDrained == EncodeDone => state = 0

C3_Witness ==
    /\ EncodeDone
    /\ caller = "client"
    /\ input_bits = <<1, 1, 1>>
    /\ nflush = 6
    /\ state = 0


\* the input bit consumed at step j (1-based) of an encode of bits: a bit of the
\* input, then the zeros of the flush steps; 0 before the first step
StepBit(bits, j) == IF 1 <= j /\ j <= Len(bits) THEN bits[j] ELSE 0

\* the K register stages at step j: the bit of step j and the K - 1 before it
RECURSIVE Stages(_, _, _)
Stages(bits, j, K) ==
    IF K = 0 THEN 0 ELSE StepBit(bits, j) + 2 * Stages(bits, j - 1, K - 1)

\* C4: each output bit of encode is the GF(2) parity over the K register stages
\* that the low K bits of its generator select, i.e. the current input bit
\* together with the K - 1 input bits before it; so the bit shifted in K - 1
\* steps earlier contributes whenever bit K - 1 of the generator is set.
C4_ParityOverKStages ==
    ConvReturned =>
       LET gens == STANDARD_POLYNOMIALS[codec.standard].generators
           K == STANDARD_POLYNOMIALS[codec.standard].constraint_length
           r == Len(gens)
       IN \A j \in 1..(Len(ret.encoded) \div r) : \A i \in 1..r :
             ret.encoded[(j - 1) * r + i] = Parity(gens[i], Stages(op.arg, j, K), K)

\* C5: at every step j of encode, input and flush steps alike, the r parity bits
\* are appended in generator-list order: the output bit at index j * r + i is
\* the parity of generator i and the register after step j, for i in 0..r-1.
C5_GeneratorOrder ==
    [][(pc = "encode" /\ pc' = "encode" /\ <<pos, nflush>>' # <<pos, nflush>>) =>
          LET j == pos + nflush
              gens == STANDARD_POLYNOMIALS[self_conv.standard].generators
              K == STANDARD_POLYNOMIALS[self_conv.standard].constraint_length
              r == Len(gens)
          IN /\ Len(encoded) = j * r
             /\ Len(encoded') = (j + 1) * r
             /\ SubSeq(encoded', 1, j * r) = encoded
             /\ \A i \in 0..(r - 1) :
                   encoded'[j * r + i + 1] = Parity(gens[i + 1], state', K)]_vars

C5_Witness ==
    /\ pc = "encode"
    /\ self_conv.standard = "CCSDS_k3_r13"
    /\ input_bits = <<0, 1>>
    /\ pos = 2
    /\ nflush = 3
    /\ state = 8
    /\ SubSeq(encoded, Len(encoded) - 2, Len(encoded)) = <<1, 1, 0>>

C7_Memoryless ==
    /\ (pc = "encode" /\ pos = 0 /\ nflush = 0) => (state = 0 /\ encoded = <<>>)
    /\ first # None => ConvFields(codec) = first.fields
    /\ (ConvReturned /\ first # None /\ op.arg = first.input) => ret = first.result
    /\ (EncodeDone /\ caller = "client" /\ first # None /\ input_bits = first.input) =>
          encoded = first.result.encoded

C7_Witness ==
    /\ ConvReturned
    /\ first # None
    /\ first.between
    /\ op.arg = <<1, 0, 1>>
    /\ first.input = <<1, 0, 1>>
    /\ ret = first.result

ConstructorNames == {"CCSDSConvolutionalCode", "CCSDSReedSolomon", "CCSDSConcatenatedCode"}

\* the constructor call in op names a standard that is no key of its registry
UnknownStandard ==
    CASE op.name = "CCSDSConvolutionalCode" -> op.arg[1] \notin DOMAIN STANDARD_POLYNOMIALS
      [] op.name = "CCSDSReedSolomon" -> op.arg[1] \notin DOMAIN STANDARD_CONFIGS
      [] op.name = "CCSDSConcatenatedCode" ->
            \/ op.arg[1] \notin DOMAIN STANDARD_POLYNOMIALS
            \/ op.arg[2] \notin DOMAIN STANDARD_CONFIGS
      [] OTHER -> FALSE

\* the standards an object was built for
StandardsOf(obj) ==
    IF obj.kind = "concat" THEN <<obj.conv_code.standard, obj.rs_code.standard>>
    ELSE <<obj.standard>>

\* C8: constructing CCSDSConvolutionalCode, CCSDSReedSolomon or
\* CCSDSConcatenatedCode with a standard name that is no key of the registry
\* fails with an error and never falls back to a default standard; no codec
\* object is produced.
C8_UnknownStandardFails ==
    /\ (op.name \in ConstructorNames /\ UnknownStandard) =>
          (raised = "ValueError" /\ ret = None)
    /\ (op.name \in ConstructorNames /\ ret # None) => StandardsOf(ret) = op.arg
    /\ codec.kind = "conv" => codec.standard \in DOMAIN PolynomialsTable
    /\ codec.kind = "rs" => codec.standard \in DOMAIN ConfigsTable
    /\ codec.kind = "concat" =>
          /\ codec.conv_code.standard \in DOMAIN PolynomialsTable
          /\ codec.rs_code.standard \in DOMAIN ConfigsTable

C8_Witness ==
    /\ op.name = "CCSDSConvolutionalCode"
    /\ op.arg = <<"INVALID_STANDARD">>
    /\ raised = "ValueError"
    /\ ret = None
    /\ codec.kind = "rs"

\* C9: the standards registry is immutable: after any sequence of codec
\* constructions (successful or failing on an unknown name) and encode/decode
\* calls, STANDARD_POLYNOMIALS and STANDARD_CONFIGS hold exactly their initial
\* keys and values.
C9_RegistryImmutable ==
    /\ STANDARD_POLYNOMIALS = PolynomialsTable
    /\ STANDARD_CONFIGS = ConfigsTable

C9_Witness ==
    /\ op.name = "CCSDSReedSolomon"
    /\ op.arg = <<"CCSDS_k3_r12">>
    /\ raised = "ValueError"
    /\ first # None
    /\ STANDARD_CONFIGS = ConfigsTable

-----------------------------------------------------------------------------
(* Properties of the packing layer (SpecPack) *)

\* the pipeline has applied both conversions to a byte sequence
UnpackedThenPacked ==
    pk # None /\ pk.from = "bytes" /\ pk.done = <<"bytes_to_bits", "bits_to_bytes">>

\* the pipeline has applied both conversions to a bit sequence
PackedThenUnpacked ==
    pk # None /\ pk.from = "bits" /\ pk.done = <<"bits_to_bytes", "bytes_to_bits">>

\* C11: for every byte sequence B, unpacking B to bits (MSB first, 8 bits per
\* byte) and packing those bits back to bytes returns exactly B, no padding
\* byte added or dropped.
C11_UnpackPackRoundTrip ==
    /\ (pk # None /\ pk.from = "bytes" /\ pk.done = <<"bytes_to_bits">>) =>
          /\ Len(pk.now) = 8 * Len(pk.orig)
          /\ \A i \in 1..Len(pk.orig) :
                pk.now[8 * (i - 1) + 1] = pk.orig[i] \div 128
    /\ UnpackedThenPacked =>
          /\ pk.now = pk.orig
          /\ Len(pk.now) = Len(pk.orig)

C11_Witness ==
    /\ UnpackedThenPacked
    /\ pk.orig = <<84, 165>>
    /\ pk.now = <<84, 165>>

\* C12: for every bit sequence whose length is a multiple of 8, packing it to
\* bytes and unpacking the bytes back to bits (MSB first) returns exactly the
\* same bit sequence.
C12_PackUnpackRoundTrip ==
    (PackedThenUnpacked /\ Len(pk.orig) % 8 = 0) => pk.now = pk.orig

C12_Witness ==
    /\ PackedThenUnpacked
    /\ pk.orig = <<0, 1, 0, 1, 0, 1, 0, 0>>
    /\ pk.now = pk.orig

\* C13: packing n bits yields ceil(n/8) bytes, groups the bits in order 8 at a
\* time with the first bit of a group as the most significant, and fills the
\* missing low-order bits of a final partial group with zeros; so when
\* n mod 8 # 0, unpacking the result gives the original bits followed by
\* (8 - n mod 8) zero bits, not the original sequence.
C13_PackPadsLowOrder ==
    /\ (pk # None /\ pk.from = "bits" /\ pk.done = <<"bits_to_bytes">>) =>
          LET n == Len(pk.orig)
          IN /\ 8 * Len(pk.now) >= n
             /\ 8 * Len(pk.now) < n + 8
             /\ \A b \in 1..Len(pk.now) : \A k \in 0..7 :
                   BitAt(pk.now[b], 7 - k) =
                      IF 8 * (b - 1) + k + 1 <= n THEN pk.orig[8 * (b - 1) + k + 1]
                      ELSE 0
    /\ (PackedThenUnpacked /\ Len(pk.orig) % 8 # 0) =>
          LET n == Len(pk.orig)
          IN /\ pk.now = pk.orig \o [z \in 1..(8 - (n % 8)) |-> 0]
             /\ pk.now # pk.orig

C13_Witness ==
    /\ PackedThenUnpacked
    /\ pk.orig = <<1, 0, 1, 1, 0, 1, 1, 1, 1>>
    /\ pk.now = <<1, 0, 1, 1, 0, 1, 1, 1, 1, 0, 0, 0, 0, 0, 0, 0>>

-----------------------------------------------------------------------------
(* Properties of the concatenation orchestrator *)

C15_BitsAreEightTimesBytesTimesR ==
    (pc = "pack" /\ Len(rs_out.encoded) > 0) =>
       Len(conv_out.encoded) =
          8 * Len(rs_out.encoded) * Len(generators(codec.conv_code))

\* the failures the inner Reed-Solomon encode can end with, for the data of the
\* call last made
RSFailures ==
    {RSEncodeRaises(engine) :
        engine \in EngineEncode(op.arg, codec.rs_code.codec.nsym)} \ {"none"}

\* C16: if the inner Reed-Solomon encode step of CCSDSConcatenatedCode.encode
\* fails, the convolutional stage is never invoked, the failure of that step is
\* what the caller receives, and no output bytes or stats are returned.
C16_RSFailureAborts ==
    [][(pc = "idle" /\ op'.name = "CCSDSConcatenatedCode.encode") =>
          \/ /\ raised' = "none"
             /\ ret' = None
             /\ pc' = "encode"
             /\ caller' = "concat"
             /\ rs_out' # None
             /\ input_bits' = BytesToBits(rs_out'.encoded)
          \/ /\ raised' \in RSFailures'
             /\ ret' = None
             /\ pc' = "idle"
             /\ rs_out' = None
             /\ conv_out' = None
             /\ UNCHANGED locals]_vars

C16_Witness ==
    /\ op = [name |-> "CCSDSConcatenatedCode.encode", arg |-> TestData]
    /\ raised = "TypeError"
    /\ pc = "idle"
    /\ ret = None
    /\ input_bits = <<>>
    /\ encoded = <<>>

-----------------------------------------------------------------------------
(* Properties of the comparison harness (SpecCompare) *)

\* a call of ccsds_fec_comparison has returned its report
CompareReturned == op.name = "ccsds_fec_comparison" /\ pc = "idle" /\ ret # None

\* the methods whose try block got to its end
Succeeded == {method \in DOMAIN attempts : attempts[method]}

FourMethods ==
    {"Reed-Solomon (255,223)", "Convolutional (K=7, Rate 1/2)", "Turbo Code",
     "LDPC Code"}

\* C17: in ccsds_fec_comparison each method is attempted independently: for
\* every subset of methods that fail, the report still has status "success",
\* has an entry for every method that succeeded and none for a method that
\* failed.
C17_MethodsIndependent ==
    /\ (pc \in {"compare_bits", "compare_turbo", "compare_ldpc"}) =>
          /\ results.status = "success"
          /\ DOMAIN results.methods = Succeeded
    /\ (CompareReturned /\ DOMAIN attempts # {}) =>
          /\ DOMAIN attempts = FourMethods
          /\ ret.value.status = "success"
          /\ DOMAIN ret.value.methods = Succeeded

C17_Witness ==
    /\ CompareReturned
    /\ op.arg = TestText
    /\ ~attempts["Reed-Solomon (255,223)"]
    /\ ret.value.status = "success"
    /\ DOMAIN ret.value.methods =
          {"Convolutional (K=7, Rate 1/2)", "Turbo Code", "LDPC Code"}

\* C18 as stated: ccsds_fec_comparison run on any non-empty input returns a
\* report whose methods map has at least one entry, even when some of the other
\* methods fail.
C18_NonEmptyInputHasEntry ==
    (CompareReturned /\ op.arg # <<>>) =>
       /\ "methods" \in DOMAIN ret.value
       /\ DOMAIN ret.value.methods # {}

\* C18 amended: ccsds_fec_comparison run on any non-empty input that can be
\* encoded as UTF-8 returns a report whose methods map has at least one entry,
\* even when some of the other methods fail; for a text that cannot be encoded
\* (a lone surrogate) it returns an error report without a methods map.
C18_EncodableInputHasEntry ==
    /\ (CompareReturned /\ op.arg # <<>> /\ Encodable(op.arg)) =>
          /\ "methods" \in DOMAIN ret.value
          /\ DOMAIN ret.value.methods # {}
    /\ (CompareReturned /\ ~Encodable(op.arg)) =>
          /\ ret.value.status = "error"
          /\ "methods" \notin DOMAIN ret.value

C18_Witness ==
    /\ CompareReturned
    /\ op.arg = <<84, 233>>
    /\ Succeeded # FourMethods
    /\ Cardinality(DOMAIN ret.value.methods) = 3

\* C19: ccsds_fec_comparison run on a non-empty input (one that can be encoded)
\* returns more than 3 method entries, i.e. all of Reed-Solomon (255,223),
\* Convolutional (K=7, Rate 1/2), Turbo Code and LDPC Code are present, and
\* every entry carries an overhead field.
C19_AllFourMethods ==
    (CompareReturned /\ op.arg # <<>> /\ Encodable(op.arg)) =>
       /\ Cardinality(DOMAIN ret.value.methods) > 3
       /\ DOMAIN ret.value.methods = FourMethods
       /\ \A method \in DOMAIN ret.value.methods :
             "overhead" \in DOMAIN ret.value.methods[method]

\* C20: the harness runs the input through the RS-only, the convolutional-only,
\* the concatenated and the repetition-placeholder encoders, so when every
\* encoder succeeds the report has an entry for the concatenated method as well
\* as for the other methods.
C20_ConcatenatedCompared ==
    (CompareReturned /\ DOMAIN attempts # {} /\ Succeeded = DOMAIN attempts) =>
       /\ FourMethods \subseteq DOMAIN ret.value.methods
       /\ \E method \in DOMAIN ret.value.methods :
             /\ method \notin FourMethods
             /\ "code_type" \in DOMAIN ret.value.methods[method]

-----------------------------------------------------------------------------
(* Properties of the tool functions (SpecTools) *)

\* the text parses, and to nothing but the integers 0 and 1
IsBitText(text) ==
    \A t \in 1..Len(ParseBits(text)) :
       /\ ParseBits(text)[t] # ValueError
       /\ ParseBits(text)[t].value \in {0, 1}

\* C21: ccsds_convolution_encode accepts as input_bits only text that parses to
\* a sequence of 0/1 integers; any other text, e.g. containing the digit 2 or a
\* comma-separated token such as "10", makes the call return status "error"
\* with no encoded bits.
C21_OnlyBitsAccepted ==
    (op.name = "ccsds_convolution_encode" /\ ret # None /\ ~IsBitText(op.arg[1])) =>
       /\ ret.value.status = "error"
       /\ "encoded_bits" \notin DOMAIN ret.value

\* the "operation" text of each tool function
OperationName ==
    [name \in EncodeTools \cup {"ccsds_fec_comparison"} |->
        CASE name = "ccsds_convolution_encode" -> "CCSDS Convolutional Encoding"
          [] name = "ccsds_reed_solomon_encode" -> "CCSDS Reed-Solomon Encoding"
          [] name = "ccsds_concatenated_encode" -> "CCSDS Concatenated Code Encoding"
          [] name = "ccsds_turbo_encode" -> "CCSDS Turbo Code Encoding"
          [] name = "ccsds_ldpc_encode" -> "CCSDS LDPC Code Encoding"
          [] name = "ccsds_fec_comparison" -> "CCSDS FEC Comparison"]

\* one of the five encode tools has returned
ToolReturned == op.name \in EncodeTools /\ pc = "idle" /\ ret # None

\* the field that carries the encoded data in the result of an encode tool
EncodedField ==
    IF op.name = "ccsds_convolution_encode" THEN "encoded_bits"
    ELSE "encoded_data_base64"

\* the call was handed something the tool cannot work on: bit text with a
\* piece that is no integer, text that cannot be encoded, an unknown standard,
\* a frame size or a rate that does not parse, a rate with numerator 0
BadArguments ==
    CASE op.name = "ccsds_convolution_encode" ->
            \/ \E t \in 1..Len(ParseBits(op.arg[1])) : ParseBits(op.arg[1])[t] = ValueError
            \/ op.arg[2] \notin DOMAIN STANDARD_POLYNOMIALS
      [] op.name = "ccsds_reed_solomon_encode" ->
            \/ ~Encodable(op.arg[1])
            \/ op.arg[2] \notin DOMAIN STANDARD_CONFIGS
      [] op.name = "ccsds_concatenated_encode" ->
            \/ ~Encodable(op.arg[1])
            \/ op.arg[2] \notin DOMAIN STANDARD_POLYNOMIALS
            \/ op.arg[3] \notin DOMAIN STANDARD_CONFIGS
      [] op.name = "ccsds_turbo_encode" ->
            \/ ~Encodable(op.arg[1])
            \/ FrameSizeOf(op.arg[2]) = ValueError
      [] op.name = "ccsds_ldpc_encode" ->
            \/ ~Encodable(op.arg[1])
            \/ RateParts(op.arg[2]) = ValueError
            \/ RateParts(op.arg[2]).rate_num = 0
      [] OTHER -> FALSE

\* C22 as stated, over all six ccsds_* tool functions: the result carries a
\* status and the operation name, and any failure inside the tool yields
\* status "error" with a message and no encoded data, never a partial result.
C22_EveryToolFailsWhole ==
    /\ ToolReturned =>
          /\ ret.value.status \in {"success", "error"}
          /\ ret.value.operation = OperationName[op.name]
          /\ BadArguments => ret.value.status = "error"
    /\ CompareReturned =>
          /\ ret.value.status \in {"success", "error"}
          /\ ret.value.operation = OperationName[op.name]
          /\ (Succeeded # DOMAIN attempts) => ret.value.status = "error"

\* C22: each of the five encode tools (ccsds_convolution_encode,
\* ccsds_reed_solomon_encode, ccsds_concatenated_encode, ccsds_turbo_encode,
\* ccsds_ldpc_encode) returns a result with status "success" or "error" and its
\* operation name; a failure inside the tool yields exactly status, operation
\* and message, with no encoded data and no stats, and no exception reaches
\* the caller; a success carries the encoded data. ccsds_fec_comparison is
\* the exception: it reports "success" with the methods that did not fail.
C22_EncodeToolsFailWhole ==
    /\ (op.name \in EncodeTools) => raised = "none"
    /\ ToolReturned =>
          /\ ret.kind = "json"
          /\ {"status", "operation"} \subseteq DOMAIN ret.value
          /\ ret.value.status \in {"success", "error"}
          /\ ret.value.operation = OperationName[op.name]
          /\ BadArguments => ret.value.status = "error"
          /\ (ret.value.status = "error") =>
                DOMAIN ret.value = {"status", "operation", "message"}
          /\ (ret.value.status = "success") =>
                /\ EncodedField \in DOMAIN ret.value
                /\ "message" \notin DOMAIN ret.value
    /\ (CompareReturned /\ Succeeded # DOMAIN attempts /\ DOMAIN attempts # {}) =>
          /\ ret.value.status = "success"
          /\ DOMAIN ret.value.methods = Succeeded

\* an encode tool was given an unknown standard and returned the error report
C22_Witness ==
    /\ ToolReturned
    /\ op.name = "ccsds_concatenated_encode"
    /\ op.arg[2] \notin DOMAIN STANDARD_POLYNOMIALS
    /\ Encodable(op.arg[1])
    /\ ret.value.status = "error"

\* C23: when the Reed-Solomon engine reports an uncorrectable codeword,
\* CCSDSReedSolomon.decode returns an empty message with stats status "error"
\* and a message, never decoded data or status "success"; when the engine
\* succeeds, the returned message is the engine's decoded message and
\* errors_corrected is the number of reported error positions.
C23_DecodeFailsCleanly ==
    [][(pc = "idle" /\ op'.name = "CCSDSReedSolomon.decode" /\ raised' = "none") =>
          \/ /\ ret'.decoded = <<>>
             /\ DOMAIN ret'.stats = {"status", "message"}
             /\ ret'.stats.status = "error"
             /\ [kind |-> "ReedSolomonError",
                 message |-> "Too many (or few) errors found"]
                   \in EngineDecode(op'.arg, codec.codec.nsym)
          \/ \E engine \in EngineDecode(op'.arg, codec.codec.nsym) :
                /\ engine.kind = "value"
                /\ ret'.decoded = engine.decoded
                /\ ret'.stats.status = "success"
                /\ ret'.stats.decoded_length = Len(engine.decoded)
                /\ ret'.stats.errors_corrected = Len(engine.errata)
                /\ ret'.stats.error_positions = engine.errata
                /\ "message" \notin DOMAIN ret'.stats]_vars

\* decode of a non-empty codeword has returned the error outcome
C23_Witness ==
    /\ op.name = "CCSDSReedSolomon.decode"
    /\ Len(op.arg) > 0
    /\ raised = "none"
    /\ ret # None
    /\ ret.stats.status = "error"
    /\ ret.decoded = <<>>

\* convolution_encode has returned
GenericReturned == op.name = "convolution_encode" /\ pc = "idle" /\ ret # None

\* every piece of the text parsed to an integer
AllParsed(parsed) == \A t \in 1..Len(parsed) : parsed[t] # ValueError

\* C24: convolution_encode given r comma-separated octal generator
\* polynomials and L input bits returns code_rate "1/r", encoded_length r*L
\* (no flush bits) and expansion_ratio r for L > 0 and 0 for L = 0.
C24_GenericRateAndLength ==
    (/\ GenericReturned
     /\ AllParsed(ParseBits(op.arg[1]))
     /\ AllParsed(ParseGenerators(op.arg[2]))) =>
       LET r == Len(ParseGenerators(op.arg[2]))
           L == Len(ParseBits(op.arg[1]))
       IN /\ ret.value.status = "success"
          /\ ret.value.input_length = L
          /\ ret.value.code_rate = "1/" \o ToString(r)
          /\ ret.value.encoded_length = r * L
          /\ ret.value.expansion_ratio = IF L > 0 THEN Number(r, 1) ELSE Zero

\* three bits were encoded with three polynomials
C24_Witness ==
    /\ GenericReturned
    /\ op.arg = <<<<"1", "0", "1">>, <<"7", ",", "5", ",", "3">>>>
    /\ ret.value.encoded_length = 9
    /\ ret.value.code_rate = "1/3"

\* two generator texts that parse to lists of the same length whose elements
\* agree modulo 8 position by position
AgreeModulo8(text, other) ==
    LET g == ParseGenerators(text)
        h == ParseGenerators(other)
    IN /\ AllParsed(g)
       /\ AllParsed(h)
       /\ Len(g) = Len(h)
       /\ \A t \in 1..Len(g) : g[t].value % 8 = h[t].value % 8

\* C27: convolution_encode always uses constraint length 3: its output depends
\* only on the low 3 bits of each generator, so two generator lists that agree
\* modulo 8 position by position (e.g. "171,133" and "1,3") produce identical
\* encoded bits for every input.
C27_OnlyLowThreeBits ==
    (GenericReturned /\ ret.value.status = "success") =>
       /\ ret.value.constraint_length = 3
       /\ \A other \in GeneratorTexts :
             AgreeModulo8(op.arg[2], other) =>
                GenericResult(op.arg[1], other).value.encoded_bits
                   = ret.value.encoded_bits

\* "10110" was encoded with "171,133", which agrees with "1,3" modulo 8
C27_Witness ==
    /\ GenericReturned
    /\ op.arg = <<<<"1", "0", "1", "1", "0">>,
                  <<"1", "7", "1", ",", "1", "3", "3">>>>
    /\ AgreeModulo8(op.arg[2], <<"1", ",", "3">>)
    /\ ret.value.encoded_bits = "1101111001"

\* C25: the Turbo and LDPC placeholders are pure bit repetition:
\* CCSDSTurboCodes.encode outputs the input bytes followed by themselves
\* (encoded_bits = 2 * original_bits), CCSDSLDPCCodes.encode with rate
\* "num/den" outputs the input bytes repeated floor(den/num) times
\* (encoded_bits = original_bits * floor(den/num)); output_length is
\* encoded_bits / 8 in both. Seen through the tools that return what encode
\* returned.
C25_PlaceholdersRepeat ==
    /\ (ToolReturned /\ op.name = "ccsds_turbo_encode"
                     /\ ret.value.status = "success") =>
          LET data == Utf8Encode(op.arg[1])
          IN /\ B64Decode(ret.value.encoded_data_base64) = data \o data
             /\ ret.value.original_bits = 8 * Len(data)
             /\ ret.value.encoded_bits = 2 * ret.value.original_bits
             /\ 8 * ret.value.output_length = ret.value.encoded_bits
    /\ (ToolReturned /\ op.name = "ccsds_ldpc_encode"
                     /\ ret.value.status = "success") =>
          LET data == Utf8Encode(op.arg[1])
              rate == RateParts(op.arg[2])
              floor == rate.rate_den \div rate.rate_num
          IN /\ B64Decode(ret.value.encoded_data_base64) = Repeat(data, floor)
             /\ ret.value.original_bits = 8 * Len(data)
             /\ ret.value.encoded_bits = ret.value.original_bits * floor
             /\ 8 * ret.value.output_length = ret.value.encoded_bits

\* "Test" was encoded by the LDPC placeholder at rate 2/3, multiplier 1
C25_Witness ==
    /\ ToolReturned
    /\ op.name = "ccsds_ldpc_encode"
    /\ op.arg = <<TestText, <<"2", "/", "3">>>>
    /\ ret.value.status = "success"
    /\ ret.value.encoded_bits = 32

\* C26: CCSDSConvolutionalCode.encode is linear over GF(2): for any two 0/1
\* inputs a and b of equal length and any registry standard, encode(a XOR b)
\* equals encode(a) XOR encode(b) bit for bit; in particular the all-zero
\* input of any length encodes to an all-zero output.
C26_EncodeIsLinear ==
    (pk.out # None) =>
       /\ pk.out.of_xor = XorLists(pk.out.of_a, pk.out.of_b)
       /\ Len(pk.out.of_a) = Len(pk.out.of_b)
       /\ (\A i \in 1..Len(pk.a) : pk.a[i] = 0) =>
             \A i \in 1..Len(pk.out.of_a) : pk.out.of_a[i] = 0

\* [1,0,1] and [0,1,1] were encoded at K=7, rate 1/3 and the outputs differ
C26_Witness ==
    /\ pk.out # None
    /\ pk.standard = "CCSDS_k3_r13"
    /\ pk.a = <<1, 0, 1>>
    /\ pk.b = <<0, 1, 1>>
    /\ pk.out.of_a # pk.out.of_b
    /\ \E i \in 1..Len(pk.out.of_xor) : pk.out.of_xor[i] = 1

\* C28: ccsds_fec_comparison on empty test data returns status "success" with
\* entries for exactly the Turbo Code and LDPC Code methods: the Reed-Solomon
\* and Convolutional blocks fail (the overhead divides by the zero input
\* length where the block gets that far) and the failure is swallowed.
C28_EmptyInputRepetitionOnly ==
    (CompareReturned /\ op.arg = <<>>) =>
       /\ ret.value.status = "success"
       /\ ret.value.original_size = 0
       /\ DOMAIN ret.value.methods = {"Turbo Code", "LDPC Code"}
       /\ DOMAIN attempts = FourMethods
       /\ Succeeded = {"Turbo Code", "LDPC Code"}
       /\ raised = "none"

\* the comparison of the empty text has returned its two entries
C28_Witness ==
    /\ CompareReturned
    /\ op.arg = <<>>
    /\ "LDPC Code" \in DOMAIN ret.value.methods
    /\ ~attempts["Convolutional (K=7, Rate 1/2)"]

\* C29: under any interleaving of concurrently running handle_client
\* coroutines, every key of client_threads is a member of connected_clients
\* at every await point; once a handler has finished (client disconnect, exit
\* command, or any exception, including a failure while creating the agent)
\* its websocket is in neither connected_clients nor client_threads, while
\* the entries of the other live handlers are untouched.
C29_ClientsAndThreads ==
    /\ DOMAIN client_threads \subseteq connected_clients
    /\ \A ws \in Websockets :
          /\ (handlers[ws].pc = "finished") =>
                /\ ws \notin connected_clients
                /\ ws \notin DOMAIN client_threads
          /\ (handlers[ws].pc = "create_agent") =>
                /\ ws \in connected_clients
                /\ ws \notin DOMAIN client_threads
          /\ (handlers[ws].pc \in {"send", "receive", "stream"}) =>
                /\ ws \in connected_clients
                /\ ws \in DOMAIN client_threads
                /\ client_threads[ws] = [thread_of |-> ws]

\* one handler has finished after its welcome went out while the handler of
\* the other connection is streaming and still has its entries
C29_Witness ==
    \E ws \in Websockets, other \in Websockets :
       /\ ws # other
       /\ handlers[ws].pc = "finished"
       /\ handlers[ws].sent # <<>>
       /\ handlers[other].pc = "stream"
       /\ other \in DOMAIN client_threads
       /\ connected_clients = {other}

\* error, farewell and response_complete end the handling of a message
IsTerminal(message) == message.type \in {"error", "farewell", "response_complete"}

Terminals(h) == SelectSeq(h.sent, IsTerminal)

\* the number of terminal replies among the first n messages sent
TerminalsBefore(h, n) == Len(SelectSeq(SubSeq(h.sent, 1, n), IsTerminal))

\* the text a message object asks with, <<>> when it has none
UserInput(message) ==
    IF message.json = "object" /\ "message" \in DOMAIN message
    THEN Strip(message.message) ELSE <<>>

\* the terminal reply is one the message can get
Answers(reply, message) ==
    IF message.json # "object" \/ UserInput(message) = <<>>
    THEN reply.type = "error"
    ELSE IF Lower(UserInput(message)) \in ExitWords
    THEN reply.type = "farewell"
    ELSE reply.type \in {"response_complete", "error"}

\* the chunk texts of a run of response_chunk messages, joined
RECURSIVE JoinChunks(_)
JoinChunks(messages) ==
    IF messages = <<>> THEN ""
    ELSE Head(messages).chunk \o JoinChunks(Tail(messages))

\* what was sent on a connection is the welcome and then, message by message
\* in arrival order, the chunks of a request and one terminal reply
OrderlyReplies(h) ==
    /\ \A j \in 1..Len(h.sent) : (h.sent[j].type = "welcome") <=> (j = 1)
    /\ Len(Terminals(h)) <= Len(h.received)
    /\ \A i \in 1..Len(Terminals(h)) : Answers(Terminals(h)[i], h.received[i])
    /\ \A j \in 1..Len(h.sent) :
          /\ (h.sent[j].type = "farewell") => (j = Len(h.sent) /\ h.pc = "finished")
          /\ (h.sent[j].type = "response_chunk") =>
                /\ TerminalsBefore(h, j) < Len(h.received)
                /\ Answers([type |-> "response_complete"],
                           h.received[TerminalsBefore(h, j) + 1])
          /\ (h.sent[j].type = "response_complete") =>
                LET from == CHOOSE i \in 1..(j - 1) :
                               /\ h.sent[i].type # "response_chunk"
                               /\ \A k \in (i + 1)..(j - 1) :
                                     h.sent[k].type = "response_chunk"
                IN h.sent[j].total_response = JoinChunks(SubSeq(h.sent, from + 1, j - 1))
    /\ (Terminals(h) # <<>> /\ Terminals(h)[Len(Terminals(h))].type = "farewell") =>
          Len(Terminals(h)) = Len(h.received)

\* C30 as stated: the welcome is the first message sent, and each received
\* message gets exactly one terminal reply in arrival order: an error (after
\* which the handler keeps reading), a farewell for an exit word (after
\* which no further message is processed), or a response_complete sent after
\* all response_chunk messages of that request whose total_response is the
\* concatenation of those chunks in the order sent.
C30_EveryMessageAnswered ==
    \A ws \in Websockets :
       /\ OrderlyReplies(handlers[ws])
       /\ (handlers[ws].pc \in {"receive", "finished"}) =>
             Len(Terminals(handlers[ws])) = Len(handlers[ws].received)

\* C30: the welcome is the first message sent; the terminal replies (error,
\* farewell, response_complete) answer the received messages in arrival
\* order, at most one each; a response_complete comes after all
\* response_chunk messages of its request and its total_response is their
\* concatenation in the order sent; a farewell is the last message of the
\* connection; whenever the handler waits for the next message every
\* received message has exactly one terminal reply; only a message during
\* whose handling the connection was lost (a send raised) is left without
\* one, and it is the last message of a finished handler.
C30_RepliesInOrder ==
    \A ws \in Websockets :
       LET h == handlers[ws]
       IN /\ OrderlyReplies(h)
          /\ (h.pc = "receive") => Len(Terminals(h)) = Len(h.received)
          /\ (h.pc \in {"send", "stream"} /\ h.pending # Welcome) =>
                Len(Terminals(h)) = Len(h.received) - 1
          /\ (h.pc = "finished") =>
                Len(Terminals(h)) \in {Len(h.received), Len(h.received) - 1}

\* a request was answered with chunks "a" and "b" and the completion "ab",
\* after an error reply to an earlier message
C30_Witness ==
    \E ws \in Websockets :
       LET h == handlers[ws]
       IN /\ Len(h.sent) = 5
          /\ h.sent[2].type = "error"
          /\ h.sent[3] = [type |-> "response_chunk", chunk |-> "a"]
          /\ h.sent[4] = [type |-> "response_chunk", chunk |-> "b"]
          /\ h.sent[5] = [type |-> "response_complete", total_response |-> "ab"]
          /\ h.pc = "receive"

=============================================================================
